---- MODULE Spec2Model ----
(***************************************************************************)
(* Model of the streaming k-way merge of internal/scraper (Interleaved,    *)
(* interleavedScraper.ScrapeShowtimes / run, mergeHeap), of the result     *)
(* cache of internal/scraper (cachingScraper) and of the transport cache   *)
(* of internal/httputil (CacheTransport).  Each specification runs one of  *)
(* the three and leaves the variables of the others alone.                 *)
(*                                                                         *)
(* Goroutines: one worker per scraper, the closer (wg.Wait; close), the    *)
(* coordinator (run's merge loop) and the consumer of the output channel.  *)
(* mergeChan and out are unbuffered: a send and its receive are one step.  *)
(***************************************************************************)
EXTENDS Integers, Sequences, FiniteSets

\* n := len(s.scrapers): two scrapers, as in Interleaved(a, b)
NumSources == 2

\* ------------------------------------------------------------------ bounds
\* longest stream of a scraper, latest StartTime, largest req.Limit
MaxLen == 2
MaxTime == 3
MaxLimit == 2
\* calls made to a cache in one run, latest clock reading
MaxCalls == 2
MaxClock == 3

\* limit = 1<<31 - 1 when req.Limit <= 0
MaxInt32 == 2147483647

Sources == 0 .. (NumSources - 1)
Times == 1 .. MaxTime

\* A ShowtimeListItem: its identity (source, position in the source's stream)
\* and its ordering key Showtime.StartTime.
Item(i, k, t) == [src |-> i, pos |-> k, StartTime |-> t]
\* the nil *ShowtimeListItem
NoItem == [src |-> -1, pos |-> 0, StartTime |-> 0]

\* The streams a scraper can emit: the Scraper contract has every scraper emit
\* in non-decreasing StartTime order ("Each scraper is assumed to return events
\* in timestamp order").
NonDecreasing(s) == \A p \in 1 .. Len(s) - 1 : s[p] <= s[p + 1]
Streams == {s \in UNION {[1 .. l -> Times] : l \in 0 .. MaxLen} : NonDecreasing(s)}

VARIABLES
    stream,     \* stream[i]: the StartTimes scraper i emits, in order
    fails,      \* fails[i]: scraper i's ScrapeShowtimes returns an error
    reqLimit,   \* req.Limit
    retErr,     \* the error ScrapeShowtimes returned ("unset" before the call)
    cancelled,  \* ctx.Done() is closed
    reading,    \* the consumer still receives from out
    wpc,        \* wpc[i]: position of worker i
    srcPos,     \* srcPos[i]: number of items worker i received from its scraper
    it,         \* it[i]: the loop variable of worker i
    mergeClosed,\* close(mergeChan) has run
    buffer, pending, closed, indices, sent,  \* the coordinator's locals
    cpc,        \* position of the coordinator
    item,       \* the item the coordinator is sending
    outClosed,  \* close(out) has run
    output      \* the items sent on out, in order

\* the caches and their callers
VARIABLES
    comp,       \* the component that runs: "merge", "result", "transport", ...
    now,        \* time.Now()
    calls,      \* number of calls made to the running cache
    rcSize,     \* maxEntries given to Cached
    rcTTL,      \* ttl given to Cached
    rcItems,    \* the expirable LRU of the cachingScraper, most recently used first
    rc,         \* rc[p]: caller p's call of cachingScraper.ScrapeShowtimes
    rcFetches,  \* number of calls of inner.ScrapeShowtimes
    rcLast,     \* the caller whose cachingScraper.ScrapeShowtimes returned last
    tcSize,     \* CacheTransport.MaxEntries
    tcItems,    \* the LRU of the CacheTransport, most recently used first
    tc,         \* tc[p]: caller p's call of CacheTransport.RoundTrip
    tcOrigins   \* number of calls of base.RoundTrip

\* the LRU lists on their own, the construction of an aggregator, the registry
VARIABLES
    used,       \* the keys inserted or hit in the LRU, in that order
    cargs,      \* the scrapers given to Interleaved
    built,      \* what Interleaved returned
    fetched,    \* what ScrapeShowtimes of the built scraper returned
    regOpts,    \* the options made by WithScraper and WithScraperForSite
    regPc,      \* "new" while NewRegistry applies its options, then "ready"
    scrapers,   \* registry.scrapers
    regLog,     \* what the options applied by NewRegistry stored, in order
    got         \* what the last GetScraper returned

\* a leaf scraper and the reader of its channel
VARIABLES
    leafKind,   \* "hollywoodtheatre", "cinemagic" or "cinema21"
    upstream,   \* the start times of the events parsed, in the order of the data
    listReq,    \* listReq.After and listReq.Before, 0 for the zero time
    sendPc,     \* "idle", then "sending" while sendShowtimes runs, then "closed"
    sendPos,    \* the number of items sendShowtimes has sent
    hits,       \* the items received from the channel hits, in order
    leafCtx,    \* "live" or "done": the context given to ScrapeShowtimes
    consuming   \* whether the reader of hits still receives

tcVars == <<tcSize, tcItems, tc, tcOrigins>>
rcVars == <<rcSize, rcTTL, rcItems, rc, rcFetches, rcLast>>
lruVars == <<used>>
ctorVars == <<cargs, built, fetched>>
regVars == <<regOpts, regPc, scrapers, regLog, got>>
leafVars == <<leafKind, upstream, listReq, sendPc, sendPos, hits, leafCtx, consuming>>
moreVars == <<lruVars, ctorVars, regVars, leafVars>>
cacheVars == <<comp, now, calls, rcVars, tcVars, moreVars>>

vars == <<stream, fails, reqLimit, retErr, cancelled, reading, wpc, srcPos, it,
          mergeClosed, buffer, pending, closed, indices, sent, cpc, item,
          outClosed, output, cacheVars>>

mergeVars == <<stream, fails, reqLimit, retErr, cancelled, reading, wpc, srcPos, it,
               mergeClosed, buffer, pending, closed, indices, sent, cpc, item,
               outClosed, output>>

inputs == <<stream, fails, reqLimit>>
coordLocals == <<buffer, pending, closed, indices, sent>>

\* ------------------------------------------------------------ mergeHeap
\* Positions of the heap are 1-based here: parent p \div 2, children 2p, 2p+1
\* (container/heap: (j-1)/2, 2i+1, 2i+2 on 0-based positions).
\* variant: the comparison of a max-heap
LessReversed(ind, buf, a, b) == buf[ind[a]].StartTime > buf[ind[b]].StartTime

Less(ind, buf, a, b) == buf[ind[a]].StartTime < buf[ind[b]].StartTime

Swap(ind, a, b) == [ind EXCEPT ![a] = ind[b], ![b] = ind[a]]

RECURSIVE Up(_, _, _)
Up(ind, buf, j) ==
    IF j = 1 THEN ind
    ELSE LET i == j \div 2 IN
         IF ~Less(ind, buf, j, i) THEN ind
         ELSE Up(Swap(ind, i, j), buf, i)

RECURSIVE Down(_, _, _, _)
Down(ind, buf, i, n) ==
    LET j1 == 2 * i IN
    IF j1 > n THEN ind
    ELSE LET j == IF j1 + 1 <= n /\ Less(ind, buf, j1 + 1, j1) THEN j1 + 1 ELSE j1 IN
         IF ~Less(ind, buf, j, i) THEN ind
         ELSE Down(Swap(ind, i, j), buf, j, n)

\* heap.Push(h, x)
HeapPush(ind, buf, x) == Up(Append(ind, x), buf, Len(ind) + 1)

\* variant: h.Pop() called in place of heap.Pop(h): the last index, no sift
HeapPopDirect(ind, buf) ==
    [j |-> ind[Len(ind)], indices |-> SubSeq(ind, 1, Len(ind) - 1)]

\* heap.Pop(h): the popped index and the remaining heap
HeapPop(ind, buf) ==
    LET n == Len(ind)
        d == Down(Swap(ind, 1, n), buf, 1, n - 1)
    IN [j |-> d[n], indices |-> SubSeq(d, 1, n - 1)]

\* ------------------------------------------------------------ run's locals
limit == IF reqLimit <= 0 THEN MaxInt32 ELSE reqLimit

\* variant: one scraper with a head or closed is enough
canPopAny ==
    \E i \in Sources : ~(~closed[i] /\ buffer[i] = NoItem /\ Len(pending[i]) = 0)

canPop ==
    \A i \in Sources : ~(~closed[i] /\ buffer[i] = NoItem /\ Len(pending[i]) = 0)

\* variant: the pending queue is never moved into the head
refillNever(buf, pend, ind, j) == [buffer |-> buf, pending |-> pend, indices |-> ind]

\* the state of buffer, pending and the heap after buffer[j] = nil; refill(j)
refill(buf, pend, ind, j) ==
    IF Len(pend[j]) > 0
    THEN LET b == [buf EXCEPT ![j] = Head(pend[j])] IN
         [buffer |-> b,
          pending |-> [pend EXCEPT ![j] = Tail(pend[j])],
          indices |-> HeapPush(ind, b, j)]
    ELSE [buffer |-> buf, pending |-> pend, indices |-> ind]

\* variant: sent <= limit
PopCondOffByOne == canPop /\ Len(indices) > 0 /\ sent <= limit

\* the condition of the merge loop's pop branch
PopCond == canPop /\ Len(indices) > 0 /\ sent < limit

\* variant: the drain loop ignores the limit
DrainCondNoLimit == Len(indices) > 0

\* the condition of the drain loop after mergeChan is closed
DrainCond == Len(indices) > 0 /\ sent < limit

\* variant: the popped head stays in buffer[j] when nothing is pending
PopStepKeepsHead ==
    LET p == HeapPop(indices, buffer)
        r == refill(buffer, pending, p.indices, p.j)
    IN [item |-> buffer[p.j], buffer |-> r.buffer, pending |-> r.pending,
        indices |-> r.indices]

\* j := heap.Pop(h); item := buffer[j]; buffer[j] = nil; refill(j)
PopStep ==
    LET p == HeapPop(indices, buffer)
        r == refill([buffer EXCEPT ![p.j] = NoItem], pending, p.indices, p.j)
    IN [item |-> buffer[p.j], buffer |-> r.buffer, pending |-> r.pending,
        indices |-> r.indices]

\* ------------------------------------------------------------------ Init
\* ------------------------------------------------------- the result cache
\* the callers of a cache
Callers == {"a", "b"}

\* ListShowtimesRequest; After and Before count half seconds, 0 is the zero time
Queries == [after : {0, 2, 3}, before : {0}, limit : {0}, anchor : {""}]
NoQuery == [after |-> 0, before |-> 0, limit |-> 0, anchor |-> ""]

\* formatTime: "" for the zero time, else t.Format(time.RFC3339), which has whole
\* seconds only
FormatTime(t) == IF t = 0 THEN <<>> ELSE <<t \div 2>>

\* fmt.Sprintf("%s|%s|%d|%s", ...)
cacheKey(req) ==
    <<FormatTime(req.after), FormatTime(req.before), req.limit, req.anchor>>

\* key := c.descriptor + ":" + cacheKey(req)
RcKey(req) == <<"inner">> \o cacheKey(req)

\* the k-th item the inner scraper emits in its fetch number f
InnerItem(f, k) == [f |-> f, i |-> k]
\* the stream of the inner scraper's fetch number f, n items long
InnerStream(f, n) == [k \in 1 .. n |-> InnerItem(f, k)]

\* the configurations: maxEntries and ttl given to Cached
RcSizes == {0, 1}
RcTTLs == {0, 1}

\* maxEntries = 64 when maxEntries <= 0
RcDefaultMaxEntries == 64
RcCapacity == IF rcSize <= 0 THEN RcDefaultMaxEntries ELSE rcSize

\* expirable.NewLRU: a ttl <= 0 stands for ten years (in seconds)
NoEvictionTTL == 315360000
RcExpiresAt(t) == t + (IF rcTTL <= 0 THEN NoEvictionTTL ELSE rcTTL)

\* an entry of the LRU: key, value and expiry; fid and whole tell the inner
\* fetch that filled it and whether value is the whole stream of that fetch
RcEntry(key, value, exp, fid, whole) ==
    [key |-> key, value |-> value, exp |-> exp, fid |-> fid, whole |-> whole]
RcNoEntry == RcEntry(<<>>, <<>>, 0, 0, TRUE)

IndexOf(items, key) ==
    IF \E k \in 1 .. Len(items) : items[k].key = key
    THEN CHOOSE k \in 1 .. Len(items) : items[k].key = key
    ELSE 0

Without(items, k) == SubSeq(items, 1, k - 1) \o SubSeq(items, k + 1, Len(items))

\* a Get that does not look at the expiry
ExpLruGetNoExpiry(items, key, t) ==
    LET k == IndexOf(items, key) IN
    IF k = 0
    THEN [ok |-> FALSE, entry |-> RcNoEntry, items |-> items]
    ELSE [ok |-> TRUE, entry |-> items[k], items |-> <<items[k]>> \o Without(items, k)]

\* expirable LRU.Get: an entry past its expiry is not found; a found entry
\* becomes the most recently used
ExpLruGet(items, key, t) ==
    LET k == IndexOf(items, key) IN
    IF k = 0 \/ t > items[k].exp
    THEN [ok |-> FALSE, entry |-> RcNoEntry, items |-> items]
    ELSE [ok |-> TRUE, entry |-> items[k], items |-> <<items[k]>> \o Without(items, k)]

\* expirable LRU.Add: replaces the entry of the key or adds one, most recently
\* used; beyond the size the oldest entry goes
ExpLruAdd(items, e, size) ==
    LET k == IndexOf(items, e.key) IN
    IF k > 0 THEN <<e>> \o Without(items, k)
    ELSE LET a == <<e>> \o items IN
         IF size > 0 /\ Len(a) > size THEN SubSeq(a, 1, Len(a) - 1) ELSE a

\* a replay that sends the items last to first
RECURSIVE ReplayReversed(_)
ReplayReversed(list) ==
    IF list = <<>> THEN <<>> ELSE ReplayReversed(Tail(list)) \o <<Head(list)>>

\* the buffered channel a call returns: every item of list sent, then read
RECURSIVE Replay(_)
Replay(list) == IF list = <<>> THEN <<>> ELSE <<Head(list)>> \o Replay(Tail(list))

\* for item := range ch { list = append(list, item) }
RECURSIVE Drain(_, _)
Drain(ch, list) == IF ch = <<>> THEN list ELSE Drain(Tail(ch), Append(list, Head(ch)))

\* caller p's call: position, request, the list returned, the error returned
\* (the number of the failing fetch, 0 for nil), hit, and the expiry of the
\* entry hit or stored
RcNoCall ==
    [pc |-> "idle", q |-> NoQuery, list |-> <<>>, err |-> 0, hit |-> FALSE,
     exp |-> 0]

\* rcLast is the caller whose call returned last
RcNoLast == "none"

\* ---------------------------------------------------- the transport cache
\* one part of a Cache-Control value, between commas and trimmed: a directive
\* name, and after "=" a number
Flag(name) == [name |-> name, eq |-> FALSE, val |-> 0]
Arg(name, n) == [name |-> name, eq |-> TRUE, val |-> n]

\* no lower-casing
ToLowerIdentity(name) == name

\* strings.ToLower on the directive names in use
ToLower(name) ==
    CASE name = "No-Cache" -> "no-cache"
      [] name = "No-Store" -> "no-store"
      [] name = "Max-Age" -> "max-age"
      [] name = "S-Maxage" -> "s-maxage"
      [] OTHER -> name

\* the Cache-Control header of a request: a sequence of header lines, each the
\* sequence of its parts
ReqCCs ==
    { <<>>,
      << <<Flag("no-cache")>> >>,
      << <<Flag("No-Cache")>> >>,
      << <<Arg("max-age", 0)>> >>,
      << <<Arg("max-age", 1)>> >>,
      << <<Flag("no-transform")>>, <<Flag("no-cache")>> >> }

\* the requests: POST and the second URL come with no Cache-Control
Requests ==
    [method : {"GET"}, url : {"/a"}, cc : ReqCCs]
        \cup [method : {"GET"}, url : {"/b"}, cc : {<<>>}]
        \cup [method : {"POST"}, url : {"/a"}, cc : {<<>>}]
NoRequest == [method |-> "", url |-> "", cc |-> <<>>]

\* the Cache-Control header of a response
RespCCs ==
    { <<>>,
      << <<Flag("No-Store")>> >>,
      << <<Arg("max-age", 1)>>, <<Flag("no-cache")>> >>,
      << <<Arg("max-age", 0)>> >>,
      << <<Arg("max-age", 1)>> >>,
      << <<Arg("s-maxage", 2), Arg("max-age", 1)>> >>,
      << <<Arg("max-age", 1), Arg("s-maxage", 2)>> >> }

Statuses == {199, 200, 300}

\* a response as the caller sees it: status and body (the number of the origin
\* round trip that produced it)
Response(status, body) == [status |-> status, body |-> body]
NoResponse == Response(0, 0)

\* key := req.Method + " " + req.URL.String()
TcKey(req) == <<req.method, req.url>>

defaultLRUMaxEntries == 1000

\* an ensureCache that gives MaxEntries to lru.New as it is
TcCapacityAsGiven == tcSize

\* ensureCache: max = defaultLRUMaxEntries when MaxEntries <= 0
TcCapacity == IF tcSize <= 0 THEN defaultLRUMaxEntries ELSE tcSize

\* lru.New(size) returns an error unless the size is positive
LruNewErr(size) == size <= 0

\* t.ensureCache() returns t.initErr, the error of lru.New(max)
ensureCache == LruNewErr(TcCapacity)
TcSizes == {0, 1}

\* all the parts of the lines of a header, in order
RECURSIVE Parts(_)
Parts(lines) == IF lines = <<>> THEN <<>> ELSE Head(lines) \o Parts(Tail(lines))

\* req.Header.Get("Cache-Control"): the first line, or the empty string
HeaderGet(lines) == IF lines = <<>> THEN <<>> ELSE Head(lines)

\* requestWantsFresh: a part "no-cache", or "max-age=" n with n <= 0
requestWantsFresh(req) ==
    LET cc == HeaderGet(req.cc) IN
    \E k \in 1 .. Len(cc) :
        \/ cc[k].name = "no-cache" /\ ~cc[k].eq
        \/ cc[k].name = "max-age" /\ cc[k].eq /\ cc[k].val <= 0

\* responseCacheControl, maxAge: the parts in order, each lower-cased; a
\* positive max-age or s-maxage sets maxAge
RECURSIVE MaxAgeOf(_, _)
MaxAgeOf(parts, maxAge) ==
    IF parts = <<>> THEN maxAge
    ELSE LET part == Head(parts)
             name == ToLower(part.name)
         IN MaxAgeOf(Tail(parts),
                     IF name \in {"max-age", "s-maxage"} /\ part.eq /\ part.val > 0
                     THEN part.val ELSE maxAge)

\* responseCacheControl over header["Cache-Control"]
responseCacheControl(header) ==
    LET parts == Parts(header) IN
    [noStore |-> \E k \in 1 .. Len(parts) :
                    ToLower(parts[k].name) \in {"no-store", "no-cache"} /\ ~parts[k].eq,
     maxAge |-> MaxAgeOf(parts, 0)]

\* a cacheExpires that adds to the time whatever it is given
cacheExpiresAlways(maxAgeSeconds) == now + maxAgeSeconds

\* cacheExpires: the zero time (0) for maxAgeSeconds <= 0
cacheExpires(maxAgeSeconds) == IF maxAgeSeconds <= 0 THEN 0 ELSE now + maxAgeSeconds

\* cachedResponse under its key
TcEntry(key, status, header, body, expires) ==
    [key |-> key, Status |-> status, Header |-> header, Body |-> body,
     Expires |-> expires]
TcNoEntry == TcEntry(<<>>, 0, <<>>, 0, 0)

\* responseFromCache
responseFromCache(entry) == Response(entry.Status, entry.Body)

\* a store rule that takes status 300 too
StorableLax(req, status) == req.method = "GET" /\ status >= 200 /\ status <= 300

\* the store rule: GET with a 2xx status
Storable(req, status) == req.method = "GET" /\ status >= 200 /\ status < 300

\* a test that still serves at the expiry time
UnexpiredInclusive(entry) == entry.Expires = 0 \/ now <= entry.Expires

\* entry.Expires.IsZero() || time.Now().Before(entry.Expires)
Unexpired(entry) == entry.Expires = 0 \/ now < entry.Expires

\* lru.Cache.Get: a found entry becomes the most recently used
LruGet(items, key) ==
    LET k == IndexOf(items, key) IN
    IF k = 0 THEN [ok |-> FALSE, entry |-> TcNoEntry, items |-> items]
    ELSE [ok |-> TRUE, entry |-> items[k], items |-> <<items[k]>> \o Without(items, k)]

\* an Add that, beyond the size, drops the entry used last before the new one
LruAddEvictsRecent(items, e, size) ==
    LET k == IndexOf(items, e.key) IN
    IF k > 0 THEN <<e>> \o Without(items, k)
    ELSE LET a == <<e>> \o items IN
         IF Len(a) > size THEN Without(a, 2) ELSE a

\* lru.Cache.Add: replaces the entry of the key or adds one, most recently used;
\* beyond the size the oldest entry goes
LruAdd(items, e, size) ==
    LET k == IndexOf(items, e.key) IN
    IF k > 0 THEN <<e>> \o Without(items, k)
    ELSE LET a == <<e>> \o items IN
         IF Len(a) > size THEN SubSeq(a, 1, Len(a) - 1) ELSE a

\* lru.Cache.Remove
LruRemove(items, key) ==
    LET k == IndexOf(items, key) IN IF k = 0 THEN items ELSE Without(items, k)

\* caller p's RoundTrip: position, request (while the call runs), cache key,
\* hit, the error returned (the number of the failing round trip, 0 for nil),
\* the response returned, and the calls of t.OnCacheHit the call has made
TcNoCall ==
    [pc |-> "idle", req |-> NoRequest, key |-> <<>>, hit |-> FALSE, err |-> 0,
     resp |-> NoResponse, cb |-> <<>>]

\* t.OnCacheHit(key, hit)
OnCacheHit(key, hit) == <<[key |-> key, hit |-> hit]>>

\* RoundTrip(req) returns
TcReturned(req) == [TcNoCall EXCEPT !.pc = "done", !.key = TcKey(req)]

\* ---- scrapers as values ----

\* a Scraper: nil, a leaf scraper with its descriptor, the noneScraper, an
\* interleavedScraper with its scrapers, or a scraper wrapped by a middleware
NilScraper == [kind |-> "nil", d |-> "", scrapers |-> <<>>]
Leaf(d) == [kind |-> "leaf", d |-> d, scrapers |-> <<>>]
NoneScraper == [kind |-> "none", d |-> "", scrapers |-> <<>>]
InterleavedScraper(flat) == [kind |-> "interleaved", d |-> "", scrapers |-> flat]
Wrapped(m, s) == [kind |-> "wrapped", d |-> m, scrapers |-> <<s>>]

\* proto.PdxSite_None.Descriptor().Syntax().GoString(): the syntax of the file
\* that declares the enum, whatever the site
SyntaxGoString == "Proto3"

\* strings.Join(parts, sep), a string being the sequence of its pieces
RECURSIVE Join(_, _)
Join(parts, sep) ==
    IF parts = <<>> THEN <<>>
    ELSE IF Len(parts) = 1 THEN parts[1]
    ELSE parts[1] \o <<sep>> \o Join(Tail(parts), sep)

\* s.Descriptor()
RECURSIVE Descriptor(_)
Descriptor(s) ==
    IF s.kind = "leaf" THEN <<s.d>>
    ELSE IF s.kind = "none" THEN <<SyntaxGoString>>
    ELSE IF s.kind = "wrapped" THEN Descriptor(s.scrapers[1])
    ELSE <<"interleaved:">>
            \o Join([k \in 1 .. Len(s.scrapers) |-> Descriptor(s.scrapers[k])], ",")

\* a loop that appends a nested interleavedScraper as it is
RECURSIVE FlatKeepsNested(_)
FlatKeepsNested(ss) ==
    IF ss = <<>> THEN <<>>
    ELSE IF ss[1].kind = "nil" THEN FlatKeepsNested(Tail(ss))
    ELSE <<ss[1]>> \o FlatKeepsNested(Tail(ss))

\* the loop of Interleaved: nil scrapers are skipped, the scrapers of an
\* interleavedScraper are appended in its place
RECURSIVE Flat(_)
Flat(ss) ==
    IF ss = <<>> THEN <<>>
    ELSE IF ss[1].kind = "nil" THEN Flat(Tail(ss))
    ELSE IF ss[1].kind = "interleaved" THEN ss[1].scrapers \o Flat(Tail(ss))
    ELSE <<ss[1]>> \o Flat(Tail(ss))

\* an Interleaved that wraps a single scraper in an interleavedScraper
InterleavedAlwaysMerges(ss) ==
    IF Len(ss) = 0 THEN NoneScraper
    ELSE LET flat == Flat(ss) IN
         IF Len(flat) = 0 THEN NoneScraper ELSE InterleavedScraper(flat)

\* Interleaved(scrapers...)
Interleaved(ss) ==
    IF Len(ss) = 0 THEN NoneScraper
    ELSE LET flat == Flat(ss) IN
         IF Len(flat) = 0 THEN NoneScraper
         ELSE IF Len(flat) = 1 THEN flat[1]
         ELSE InterleavedScraper(flat)

\* a ScrapeShowtimes that leaves its channel open
NoneScrapeShowtimesOpen == [called |-> TRUE, err |-> FALSE, ch |-> <<>>, closed |-> FALSE]

\* noneScraper.ScrapeShowtimes: a channel made and closed, and no error
NoneScrapeShowtimes == [called |-> TRUE, err |-> FALSE, ch |-> <<>>, closed |-> TRUE]

\* what ScrapeShowtimes returned: the error, the channel's items, and whether
\* the channel is closed
NoFetch == [called |-> FALSE, err |-> FALSE, ch |-> <<>>, closed |-> FALSE]
\* what GetScraper returned: the scraper and the error
NoGot == [called |-> FALSE, d |-> "", scraper |-> NilScraper, err |-> <<>>]

\* the options a caller holds, by name
OptionIds == {1, 2}

\* an option: whether made, made by WithScraperForSite or by WithScraper, the
\* descriptor or the site given, the scraper given, the variable scraper the
\* closure holds, the middleware, and how many times it has been applied
NoOption ==
    [made |-> FALSE, forSite |-> FALSE, d |-> "", src |-> NilScraper,
     scraper |-> NilScraper, mws |-> <<>>, n |-> 0]

\* no registry in the run
RegIdle ==
    /\ regOpts = [i \in OptionIds |-> NoOption]
    /\ regPc = "new"
    /\ scrapers = <<>>
    /\ regLog = <<>>
    /\ got = NoGot

\* a request with no bound
NoListReq == [After |-> 0, Before |-> 0]

\* no leaf scraper in the run
LeafIdle ==
    /\ leafKind = ""
    /\ upstream = <<>>
    /\ listReq = NoListReq
    /\ sendPc = "idle"
    /\ sendPos = 0
    /\ hits = <<>>
    /\ leafCtx = "live"
    /\ consuming = TRUE

\* nothing but a cache or the merge in the run
MoreIdle ==
    /\ used = <<>>
    /\ cargs = <<>>
    /\ built = NilScraper
    /\ fetched = NoFetch
    /\ RegIdle
    /\ LeafIdle

\* no result cache in the run
RcIdle ==
    /\ rcSize = 0
    /\ rcTTL = 0
    /\ rcItems = <<>>
    /\ rc = [p \in Callers |-> RcNoCall]
    /\ rcFetches = 0
    /\ rcLast = RcNoLast

\* no transport cache in the run
TcIdle ==
    /\ tcSize = 0
    /\ tcItems = <<>>
    /\ tc = [p \in Callers |-> TcNoCall]
    /\ tcOrigins = 0

\* the caches of a run of the merge: not built
CachesIdle ==
    /\ now = 1
    /\ calls = 0
    /\ RcIdle
    /\ TcIdle
    /\ MoreIdle

\* the merge of a run of a cache: not started, no scraper has anything
MergeIdle ==
    /\ stream = [i \in Sources |-> <<>>]
    /\ fails = [i \in Sources |-> FALSE]
    /\ reqLimit = 0
    /\ retErr = "unset"
    /\ cancelled = FALSE
    /\ reading = TRUE
    /\ wpc = [i \in Sources |-> "idle"]
    /\ srcPos = [i \in Sources |-> 0]
    /\ it = [i \in Sources |-> NoItem]
    /\ mergeClosed = FALSE
    /\ buffer = [i \in Sources |-> NoItem]
    /\ pending = [i \in Sources |-> <<>>]
    /\ closed = [i \in Sources |-> FALSE]
    /\ indices = <<>>
    /\ sent = 0
    /\ cpc = "init"
    /\ item = NoItem
    /\ outClosed = FALSE
    /\ output = <<>>

Init ==
    /\ comp = "merge"
    /\ CachesIdle
    /\ stream \in [Sources -> Streams]
    /\ fails \in [Sources -> BOOLEAN]
    /\ \A i \in Sources : fails[i] => stream[i] = <<>>
    /\ reqLimit \in 0 .. MaxLimit
    /\ retErr = "unset"
    /\ cancelled = FALSE
    /\ reading = TRUE
    /\ wpc = [i \in Sources |-> "idle"]
    /\ srcPos = [i \in Sources |-> 0]
    /\ it = [i \in Sources |-> NoItem]
    /\ mergeClosed = FALSE
    /\ buffer = [i \in Sources |-> NoItem]
    /\ pending = [i \in Sources |-> <<>>]
    /\ closed = [i \in Sources |-> FALSE]
    /\ indices = <<>>
    /\ sent = 0
    /\ cpc = "init"
    /\ item = NoItem
    /\ outClosed = FALSE
    /\ output = <<>>

\* --------------------------------------------------------------- actions
\* ScrapeShowtimes returns (out, nil); run starts the workers and the closer.
ScrapeShowtimes ==
    /\ cpc = "init"
    /\ cpc' = "loop"
    /\ retErr' = "nil"
    /\ wpc' = [i \in Sources |-> "fetch"]
    /\ UNCHANGED <<cacheVars, inputs, cancelled, reading, srcPos, it, mergeClosed,
                   coordLocals, item, outClosed, output>>

\* the coordinator is blocked in slot, ok := <-mergeChan
CoordReceiving == cpc = "loop" /\ ~PopCond

\* variant: the error path returns without the exhausted signal
WorkerFetchErrNoSignal(i) ==
    /\ wpc[i] = "fetch"
    /\ fails[i]
    /\ wpc' = [wpc EXCEPT ![i] = "done"]
    /\ UNCHANGED <<cacheVars, inputs, retErr, cancelled, reading, srcPos, it, mergeClosed,
                   coordLocals, cpc, item, outClosed, output>>

\* worker i: sc.ScrapeShowtimes returned an error
WorkerFetchErr(i) ==
    /\ wpc[i] = "fetch"
    /\ fails[i]
    /\ wpc' = [wpc EXCEPT ![i] = "sendExhausted"]
    /\ UNCHANGED <<cacheVars, inputs, retErr, cancelled, reading, srcPos, it, mergeClosed,
                   coordLocals, cpc, item, outClosed, output>>

\* worker i: sc.ScrapeShowtimes returned a channel
WorkerFetchOk(i) ==
    /\ wpc[i] = "fetch"
    /\ ~fails[i]
    /\ wpc' = [wpc EXCEPT ![i] = "range"]
    /\ UNCHANGED <<cacheVars, inputs, retErr, cancelled, reading, srcPos, it, mergeClosed,
                   coordLocals, cpc, item, outClosed, output>>

\* worker i: for it := range ch receives the scraper's next item
WorkerRangeItem(i) ==
    /\ wpc[i] = "range"
    /\ srcPos[i] < Len(stream[i])
    /\ srcPos' = [srcPos EXCEPT ![i] = @ + 1]
    /\ it' = [it EXCEPT ![i] = Item(i, srcPos[i] + 1, stream[i][srcPos[i] + 1])]
    /\ wpc' = [wpc EXCEPT ![i] = "sendItem"]
    /\ UNCHANGED <<cacheVars, inputs, retErr, cancelled, reading, mergeClosed,
                   coordLocals, cpc, item, outClosed, output>>

\* worker i: ch is closed (the stream ended, or the scraper observed ctx.Done)
WorkerRangeClosed(i) ==
    /\ wpc[i] = "range"
    /\ srcPos[i] = Len(stream[i]) \/ cancelled
    /\ wpc' = [wpc EXCEPT ![i] = "sendExhausted"]
    /\ UNCHANGED <<cacheVars, inputs, retErr, cancelled, reading, srcPos, it, mergeClosed,
                   coordLocals, cpc, item, outClosed, output>>

\* variant: an arrival goes to the front of the pending queue
WorkerSendItemPrepends(i) ==
    /\ wpc[i] = "sendItem"
    /\ CoordReceiving
    /\ IF buffer[i] = NoItem
       THEN LET b == [buffer EXCEPT ![i] = it[i]] IN
            /\ buffer' = b
            /\ indices' = HeapPush(indices, b, i)
            /\ UNCHANGED pending
       ELSE /\ pending' = [pending EXCEPT ![i] = <<it[i]>> \o @]
            /\ UNCHANGED <<buffer, indices>>
    /\ wpc' = [wpc EXCEPT ![i] = "range"]
    /\ UNCHANGED <<cacheVars, inputs, retErr, cancelled, reading, srcPos, it, mergeClosed,
                   closed, sent, cpc, item, outClosed, output>>

\* worker i: mergeChan <- mergedSlot{item: &it, index: i}, received by the
\* coordinator, which buffers the item
WorkerSendItem(i) ==
    /\ wpc[i] = "sendItem"
    /\ CoordReceiving
    /\ IF buffer[i] = NoItem
       THEN LET b == [buffer EXCEPT ![i] = it[i]] IN
            /\ buffer' = b
            /\ indices' = HeapPush(indices, b, i)
            /\ UNCHANGED pending
       ELSE /\ pending' = [pending EXCEPT ![i] = Append(@, it[i])]
            /\ UNCHANGED <<buffer, indices>>
    /\ wpc' = [wpc EXCEPT ![i] = "range"]
    /\ UNCHANGED <<cacheVars, inputs, retErr, cancelled, reading, srcPos, it, mergeClosed,
                   closed, sent, cpc, item, outClosed, output>>

\* worker i: case <-ctx.Done(): return
WorkerCtxDone(i) ==
    /\ wpc[i] = "sendItem"
    /\ cancelled
    /\ wpc' = [wpc EXCEPT ![i] = "done"]
    /\ UNCHANGED <<cacheVars, inputs, retErr, cancelled, reading, srcPos, it, mergeClosed,
                   coordLocals, cpc, item, outClosed, output>>

\* worker i: mergeChan <- mergedSlot{index: i}, received by the coordinator,
\* which marks the source closed
WorkerSendExhausted(i) ==
    /\ wpc[i] = "sendExhausted"
    /\ CoordReceiving
    /\ closed' = [closed EXCEPT ![i] = TRUE]
    /\ wpc' = [wpc EXCEPT ![i] = "done"]
    /\ UNCHANGED <<cacheVars, inputs, retErr, cancelled, reading, srcPos, it, mergeClosed,
                   buffer, pending, indices, sent, cpc, item, outClosed, output>>

\* variant: wg.Done() is missed on the error path, wg.Wait() never returns then
CloserMissedDone ==
    /\ ~mergeClosed
    /\ \A i \in Sources : wpc[i] = "done" /\ ~fails[i]
    /\ mergeClosed' = TRUE
    /\ UNCHANGED <<cacheVars, inputs, retErr, cancelled, reading, wpc, srcPos, it,
                   coordLocals, cpc, item, outClosed, output>>

\* wg.Wait(); close(mergeChan)
Closer ==
    /\ ~mergeClosed
    /\ \A i \in Sources : wpc[i] = "done"
    /\ mergeClosed' = TRUE
    /\ UNCHANGED <<cacheVars, inputs, retErr, cancelled, reading, wpc, srcPos, it,
                   coordLocals, cpc, item, outClosed, output>>

\* the pop branch of the merge loop, up to the select that sends the item
CoordPop ==
    /\ cpc = "loop"
    /\ PopCond
    /\ LET p == PopStep IN
       /\ buffer' = p.buffer
       /\ pending' = p.pending
       /\ indices' = p.indices
       /\ item' = p.item
       /\ cpc' = IF p.item = NoItem THEN "loop" ELSE "send"
    /\ UNCHANGED <<cacheVars, inputs, retErr, cancelled, reading, wpc, srcPos, it,
                   mergeClosed, closed, sent, outClosed, output>>

\* case out <- *item: sent++ (merge loop)
CoordSend ==
    /\ cpc = "send"
    /\ reading
    /\ output' = Append(output, item)
    /\ sent' = sent + 1
    /\ cpc' = "loop"
    /\ item' = NoItem
    /\ UNCHANGED <<cacheVars, inputs, retErr, cancelled, reading, wpc, srcPos, it,
                   mergeClosed, buffer, pending, closed, indices, outClosed>>

\* variant: only the merge loop's send selects on ctx.Done()
CoordCtxDoneMainOnly ==
    /\ cpc = "send"
    /\ cancelled
    /\ cpc' = "done"
    /\ outClosed' = TRUE
    /\ UNCHANGED <<cacheVars, inputs, retErr, cancelled, reading, wpc, srcPos, it,
                   mergeClosed, coordLocals, item, output>>

\* case <-ctx.Done(): return (either select); the deferred close(out) runs
CoordCtxDone ==
    /\ cpc \in {"send", "drainSend"}
    /\ cancelled
    /\ cpc' = "done"
    /\ outClosed' = TRUE
    /\ UNCHANGED <<cacheVars, inputs, retErr, cancelled, reading, wpc, srcPos, it,
                   mergeClosed, coordLocals, item, output>>

\* slot, ok := <-mergeChan with ok = false
CoordRecvClosed ==
    /\ CoordReceiving
    /\ mergeClosed
    /\ cpc' = "drain"
    /\ UNCHANGED <<cacheVars, inputs, retErr, cancelled, reading, wpc, srcPos, it,
                   mergeClosed, coordLocals, item, outClosed, output>>

\* one iteration of the drain loop, up to its select
DrainPop ==
    /\ cpc = "drain"
    /\ DrainCond
    /\ LET p == PopStep IN
       /\ buffer' = p.buffer
       /\ pending' = p.pending
       /\ indices' = p.indices
       /\ item' = p.item
       /\ cpc' = IF p.item = NoItem THEN "drain" ELSE "drainSend"
    /\ UNCHANGED <<cacheVars, inputs, retErr, cancelled, reading, wpc, srcPos, it,
                   mergeClosed, closed, sent, outClosed, output>>

\* case out <- *item: sent++ (drain loop)
DrainSend ==
    /\ cpc = "drainSend"
    /\ reading
    /\ output' = Append(output, item)
    /\ sent' = sent + 1
    /\ cpc' = "drain"
    /\ item' = NoItem
    /\ UNCHANGED <<cacheVars, inputs, retErr, cancelled, reading, wpc, srcPos, it,
                   mergeClosed, buffer, pending, closed, indices, outClosed>>

\* the drain loop ends; run returns and the deferred close(out) runs
DrainReturn ==
    /\ cpc = "drain"
    /\ ~DrainCond
    /\ cpc' = "done"
    /\ outClosed' = TRUE
    /\ UNCHANGED <<cacheVars, inputs, retErr, cancelled, reading, wpc, srcPos, it,
                   mergeClosed, coordLocals, item, output>>

\* the caller cancels ctx in the middle of a merge
Cancel ==
    /\ cpc \notin {"init", "done"}
    /\ ~cancelled
    /\ cancelled' = TRUE
    /\ UNCHANGED <<cacheVars, inputs, retErr, reading, wpc, srcPos, it, mergeClosed,
                   coordLocals, cpc, item, outClosed, output>>

\* the consumer stops receiving from out (it shows only while the coordinator
\* offers an item on out)
ConsumerStop ==
    /\ cpc \in {"send", "drainSend"}
    /\ reading
    /\ reading' = FALSE
    /\ UNCHANGED <<cacheVars, inputs, retErr, cancelled, wpc, srcPos, it, mergeClosed,
                   coordLocals, cpc, item, outClosed, output>>

Worker(i) ==
    \/ WorkerFetchErr(i)
    \/ WorkerFetchOk(i)
    \/ WorkerRangeItem(i)
    \/ WorkerRangeClosed(i)
    \/ WorkerSendItem(i)
    \/ WorkerCtxDone(i)
    \/ WorkerSendExhausted(i)

Coordinator ==
    \/ CoordPop
    \/ CoordSend
    \/ CoordCtxDone
    \/ CoordRecvClosed
    \/ DrainPop
    \/ DrainSend
    \/ DrainReturn

Next ==
    \/ ScrapeShowtimes
    \/ \E i \in Sources : Worker(i)
    \/ Closer
    \/ Coordinator
    \/ Cancel
    \/ ConsumerStop

Spec == Init /\ [][Next]_vars

\* Every goroutine that can take a step eventually takes one (the Go scheduler);
\* the caller and the consumer owe nothing.
Fairness ==
    /\ WF_vars(ScrapeShowtimes)
    /\ \A i \in Sources : WF_vars(Worker(i))
    /\ WF_vars(Closer)
    /\ WF_vars(Coordinator)

\* The merges whose scrapers each emit strictly increasing StartTimes: every
\* length, failure, limit, cancellation and interleaving of Spec, without ties
\* inside one stream.
IncreasingStreams == {s \in Streams : \A p \in 1 .. Len(s) - 1 : s[p] < s[p + 1]}

LiveInit == Init /\ \A i \in Sources : stream[i] \in IncreasingStreams

LiveSpec == LiveInit /\ [][Next]_vars /\ Fairness

\* The merges whose scrapers break the contract: a scraper may emit its items
\* in any order of StartTime (as the HollywoodTheatre scraper does).
\* Two StartTimes, the earliest and the latest, are enough for every order of
\* two items and for ties.
AnyTimes == {1, MaxTime}
\* The first scraper sends up to MaxLen + 1 items, so that its pending queue
\* holds two of them behind the head; the others send one item at most.
AnyStreams == UNION {[1 .. l -> AnyTimes] : l \in 0 .. MaxLen + 1}
ShortStreams == UNION {[1 .. l -> AnyTimes] : l \in 0 .. 1}

AnyOrderInit ==
    /\ comp = "merge"
    /\ CachesIdle
    /\ stream \in [Sources -> AnyStreams]
    /\ \A i \in Sources \ {0} : stream[i] \in ShortStreams
    /\ fails \in [Sources -> BOOLEAN]
    /\ \A i \in Sources : fails[i] => stream[i] = <<>>
    /\ reqLimit \in 0 .. MaxLimit
    /\ retErr = "unset"
    /\ cancelled = FALSE
    /\ reading = TRUE
    /\ wpc = [i \in Sources |-> "idle"]
    /\ srcPos = [i \in Sources |-> 0]
    /\ it = [i \in Sources |-> NoItem]
    /\ mergeClosed = FALSE
    /\ buffer = [i \in Sources |-> NoItem]
    /\ pending = [i \in Sources |-> <<>>]
    /\ closed = [i \in Sources |-> FALSE]
    /\ indices = <<>>
    /\ sent = 0
    /\ cpc = "init"
    /\ item = NoItem
    /\ outClosed = FALSE
    /\ output = <<>>

AnyOrderSpec == AnyOrderInit /\ [][Next]_vars

Terminated ==
    /\ cpc = "done"
    /\ outClosed
    /\ mergeClosed
    /\ \A i \in Sources : wpc[i] = "done"

\* ----------------------------------------------- the result cache: steps
\* Cached(maxEntries, ttl)(inner) has run
RcInit ==
    /\ comp = "result"
    /\ MergeIdle
    /\ now = 1
    /\ calls = 0
    /\ rcSize \in RcSizes
    /\ rcTTL \in RcTTLs
    /\ rcItems = <<>>
    /\ rc = [p \in Callers |-> RcNoCall]
    /\ rcFetches = 0
    /\ rcLast = RcNoLast
    /\ TcIdle
    /\ MoreIdle

\* caller p calls ScrapeShowtimes(ctx, q): the lookup, and on a hit the replay
\* and the return
RcLookup(p, q) ==
    /\ comp = "result"
    /\ rc[p].pc \in {"idle", "done"}
    /\ calls < MaxCalls
    /\ calls' = calls + 1
    /\ LET g == ExpLruGet(rcItems, RcKey(q), now)
           c == [RcNoCall EXCEPT !.q = q]
       IN IF g.ok
          THEN LET d == [c EXCEPT !.pc = "done", !.hit = TRUE,
                                  !.exp = g.entry.exp,
                                  !.list = Replay(g.entry.value)]
               IN /\ rc' = [rc EXCEPT ![p] = d]
                  /\ rcItems' = g.items
                  /\ rcLast' = p
          ELSE /\ rc' = [rc EXCEPT ![p] = [c EXCEPT !.pc = "fetch"]]
               /\ UNCHANGED <<rcItems, rcLast>>
    /\ UNCHANGED <<mergeVars, moreVars, tcVars, comp, now, rcSize, rcTTL, rcFetches>>

\* an error path that stores the empty list under the key
RcFetchErrStored(p) ==
    /\ comp = "result"
    /\ rc[p].pc = "fetch"
    /\ rcFetches' = rcFetches + 1
    /\ rcItems' = ExpLruAdd(rcItems,
                            RcEntry(RcKey(rc[p].q), <<>>, RcExpiresAt(now),
                                    rcFetches + 1, TRUE),
                            RcCapacity)
    /\ rc' = [rc EXCEPT ![p] = [@ EXCEPT !.pc = "done", !.err = rcFetches + 1]]
    /\ rcLast' = p
    /\ UNCHANGED <<mergeVars, moreVars, tcVars, comp, now, calls, rcSize, rcTTL>>

\* c.inner.ScrapeShowtimes returns an error, which the call returns
RcFetchErr(p) ==
    /\ comp = "result"
    /\ rc[p].pc = "fetch"
    /\ rcFetches' = rcFetches + 1
    /\ LET d == [rc[p] EXCEPT !.pc = "done", !.err = rcFetches + 1]
       IN /\ rc' = [rc EXCEPT ![p] = d]
          /\ rcLast' = p
    /\ UNCHANGED <<mergeVars, moreVars, tcVars, comp, now, calls, rcSize, rcTTL, rcItems>>

\* the miss path without c.cache.Add
RcFetchNoStore(p, n, k, ctxDone) ==
    /\ comp = "result"
    /\ rc[p].pc = "fetch"
    /\ k = n \/ (ctxDone /\ k < n)
    /\ rcFetches' = rcFetches + 1
    /\ LET fid == rcFetches + 1
           list == Drain(SubSeq(InnerStream(fid, n), 1, k), <<>>)
           d == [rc[p] EXCEPT !.pc = "done", !.exp = RcExpiresAt(now),
                              !.list = Replay(list)]
       IN /\ rc' = [rc EXCEPT ![p] = d]
          /\ rcLast' = p
    /\ UNCHANGED <<mergeVars, moreVars, tcVars, comp, now, calls, rcSize, rcTTL, rcItems>>

\* c.inner.ScrapeShowtimes returns the channel of a stream of n items; the call
\* drains it until it is closed, which is after k items: all of them, or fewer
\* when the caller cancelled the context and the inner scraper stopped; then
\* c.cache.Add(key, list), the replay and the return
RcFetchStore(p, n, k, ctxDone) ==
    /\ comp = "result"
    /\ rc[p].pc = "fetch"
    /\ k = n \/ (ctxDone /\ k < n)
    /\ rcFetches' = rcFetches + 1
    /\ LET fid == rcFetches + 1
           list == Drain(SubSeq(InnerStream(fid, n), 1, k), <<>>)
           e == RcEntry(RcKey(rc[p].q), list, RcExpiresAt(now), fid, k = n)
           d == [rc[p] EXCEPT !.pc = "done", !.exp = e.exp, !.list = Replay(list)]
       IN /\ rcItems' = ExpLruAdd(rcItems, e, RcCapacity)
          /\ rc' = [rc EXCEPT ![p] = d]
          /\ rcLast' = p
    /\ UNCHANGED <<mergeVars, moreVars, tcVars, comp, now, calls, rcSize, rcTTL>>

\* the LRU's background goroutine deletes the entries past their expiry
RcPurge ==
    /\ comp = "result"
    /\ \E k \in 1 .. Len(rcItems) : now > rcItems[k].exp
    /\ rcItems' = SelectSeq(rcItems, LAMBDA e : ~(now > e.exp))
    /\ UNCHANGED <<mergeVars, moreVars, tcVars, comp, now, calls, rcSize, rcTTL, rc, rcFetches, rcLast>>

\* time passes
Tick ==
    /\ comp # "merge"
    /\ now < MaxClock
    /\ now' = now + 1
    /\ UNCHANGED <<mergeVars, moreVars, rcVars, tcVars, comp, calls>>

RcNext ==
    \/ \E p \in Callers, q \in Queries : RcLookup(p, q)
    \/ \E p \in Callers : RcFetchErr(p)
    \/ \E p \in Callers, n \in 0 .. MaxLen, k \in 0 .. MaxLen, ctxDone \in BOOLEAN :
          RcFetchStore(p, n, k, ctxDone)
    \/ RcPurge
    \/ Tick

RcSpec == RcInit /\ [][RcNext]_vars

\* --------------------------------------------- the transport cache: steps
\* a CacheTransport with MaxEntries set; ensureCache has run
TcInit ==
    /\ comp = "transport"
    /\ MergeIdle
    /\ RcIdle
    /\ MoreIdle
    /\ now = 1
    /\ calls = 0
    /\ tcSize \in TcSizes
    /\ tcItems = <<>>
    /\ tc = [p \in Callers |-> TcNoCall]
    /\ tcOrigins = 0

\* a RoundTrip that starts only when no call is at the origin, as under a
\* mutex held for the whole call
RoundTripEntersLocked(p) ==
    /\ tc[p].pc = "idle"
    /\ \A o \in Callers : tc[o].pc # "origin"

\* RoundTrip takes no lock of its own: a caller that is not in a call starts
\* one whatever the other callers do
RoundTripEnters(p) == tc[p].pc = "idle"

\* caller p calls RoundTrip(req): the bypass test, the lookup, and on a hit the
\* return of the stored response
TcLookup(p, req) ==
    /\ comp = "transport"
    /\ RoundTripEnters(p)
    /\ ~ensureCache
    /\ calls < MaxCalls
    /\ calls' = calls + 1
    /\ LET c == [TcNoCall EXCEPT !.req = req, !.key = TcKey(req)]
           g == LruGet(tcItems, TcKey(req))
       IN IF requestWantsFresh(req)
          THEN /\ tc' = [tc EXCEPT ![p] = [c EXCEPT !.pc = "origin"]]
               /\ UNCHANGED tcItems
          ELSE /\ tcItems' = g.items
               /\ IF ~g.ok
                  THEN tc' = [tc EXCEPT ![p] = [c EXCEPT !.pc = "origin"]]
                  ELSE IF Unexpired(g.entry)
                  THEN tc' = [tc EXCEPT ![p] = [TcReturned(req) EXCEPT
                                                    !.hit = TRUE,
                                                    !.cb = OnCacheHit(TcKey(req), TRUE),
                                                    !.resp = responseFromCache(g.entry)]]
                  ELSE tc' = [tc EXCEPT ![p] = [c EXCEPT !.pc = "remove"]]
    /\ UNCHANGED <<mergeVars, moreVars, rcVars, comp, now, tcSize, tcOrigins>>

\* t.cache.Remove(key) after the lookup found an expired entry
TcRemove(p) ==
    /\ comp = "transport"
    /\ tc[p].pc = "remove"
    /\ tcItems' = LruRemove(tcItems, TcKey(tc[p].req))
    /\ tc' = [tc EXCEPT ![p] = [@ EXCEPT !.pc = "origin"]]
    /\ UNCHANGED <<mergeVars, moreVars, rcVars, comp, now, calls, tcSize, tcOrigins>>

\* base.RoundTrip(req) returns an error, which RoundTrip returns
TcOriginErr(p) ==
    /\ comp = "transport"
    /\ tc[p].pc = "origin"
    /\ tcOrigins' = tcOrigins + 1
    /\ tc' = [tc EXCEPT ![p] = [TcReturned(tc[p].req) EXCEPT !.err = tcOrigins + 1]]
    /\ UNCHANGED <<mergeVars, moreVars, rcVars, comp, now, calls, tcSize, tcItems>>

\* base.RoundTrip(req) returns a response with the given status and
\* Cache-Control; the store rule, reading the body (which fails when bodyErr),
\* t.cache.Add and the return
TcOrigin(p, status, cc, bodyErr) ==
    /\ comp = "transport"
    /\ tc[p].pc = "origin"
    /\ tcOrigins' = tcOrigins + 1
    /\ LET req == tc[p].req
           resp == Response(status, tcOrigins + 1)
           returned == [TcReturned(req) EXCEPT !.resp = resp,
                                               !.cb = OnCacheHit(TcKey(req), FALSE)]
           rcc == responseCacheControl(cc)
       IN IF ~Storable(req, status) \/ rcc.noStore
          THEN /\ tc' = [tc EXCEPT ![p] = returned]
               /\ UNCHANGED tcItems
          ELSE IF bodyErr
          THEN /\ tc' = [tc EXCEPT ![p] = [TcReturned(req) EXCEPT
                                                    !.err = tcOrigins + 1]]
               /\ UNCHANGED tcItems
          ELSE /\ tcItems' = LruAdd(tcItems,
                                    TcEntry(TcKey(req), status, cc, tcOrigins + 1,
                                            cacheExpires(rcc.maxAge)),
                                    TcCapacity)
               /\ tc' = [tc EXCEPT ![p] = returned]
    /\ UNCHANGED <<mergeVars, moreVars, rcVars, comp, now, calls, tcSize>>

\* the caller has its response or error
TcReturn(p) ==
    /\ comp = "transport"
    /\ tc[p].pc = "done"
    /\ tc' = [tc EXCEPT ![p] = TcNoCall]
    /\ UNCHANGED <<mergeVars, moreVars, rcVars, comp, now, calls, tcSize, tcItems, tcOrigins>>

TcNext ==
    \/ \E p \in Callers, req \in Requests : TcLookup(p, req)
    \/ \E p \in Callers : TcRemove(p)
    \/ \E p \in Callers : TcOriginErr(p)
    \/ \E p \in Callers, status \in Statuses, cc \in RespCCs, bodyErr \in BOOLEAN :
          TcOrigin(p, status, cc, bodyErr)
    \/ \E p \in Callers : TcReturn(p)
    \/ Tick

TcSpec == TcInit /\ [][TcNext]_vars

\* a CacheTransport that has served one GET /a before: the response, stored at
\* time 1 with no max-age or with max-age=1, is in the cache
TcWarmCCs == { <<>>, << <<Arg("max-age", 1)>> >> }

TcWarmInit ==
    /\ comp = "transport"
    /\ MergeIdle
    /\ RcIdle
    /\ MoreIdle
    /\ now = 1
    /\ calls = 0
    /\ tcSize \in TcSizes
    /\ \E cc \in TcWarmCCs :
          tcItems = <<TcEntry(<<"GET", "/a">>, 200, cc, 1,
                              cacheExpires(responseCacheControl(cc).maxAge))>>
    /\ tc = [p \in Callers |-> TcNoCall]
    /\ tcOrigins = 1

TcWarmSpec == TcWarmInit /\ [][TcNext]_vars

\* ------------------------------------------------ either cache, one a run
CacheInit == RcInit \/ TcInit

CacheNext == RcNext \/ TcNext

CacheSpec == CacheInit /\ [][CacheNext]_vars

\* ---- the LRU lists of the two caches on their own ----

\* the number of insertions and hits of a run
MaxOps == 4

\* the sizes given to the caches, and three queries and three requests with
\* three different keys
LruSizes == {-1, 0, 1, 2}
LruQueries == [after : {0, 2, 4}, before : {0}, limit : {0}, anchor : {""}]
LruRequests == [method : {"GET"}, url : {"/a", "/b", "/c"}, cc : {<<>>}]

\* what the LRU of the run holds, the size it was given, and its capacity
LruSize == IF comp = "rcLru" THEN rcSize ELSE tcSize
LruItems == IF comp = "rcLru" THEN rcItems ELSE tcItems
LruCapacity == IF comp = "rcLru" THEN RcCapacity ELSE TcCapacity

LruInit ==
    /\ comp \in {"rcLru", "tcLru"}
    /\ MergeIdle
    /\ MoreIdle
    /\ now = 1
    /\ calls = 0
    /\ rcSize \in (IF comp = "rcLru" THEN LruSizes ELSE {0})
    /\ rcTTL = 0
    /\ rcItems = <<>>
    /\ rc = [p \in Callers |-> RcNoCall]
    /\ rcFetches = 0
    /\ rcLast = RcNoLast
    /\ tcSize \in (IF comp = "tcLru" THEN LruSizes ELSE {0})
    /\ tcItems = <<>>
    /\ tc = [p \in Callers |-> TcNoCall]
    /\ tcOrigins = 0

\* ScrapeShowtimes(ctx, q) finds q in the cache: c.lru.Get
RcLruHit(q) ==
    /\ comp = "rcLru"
    /\ Len(used) < MaxOps
    /\ LET r == ExpLruGet(rcItems, RcKey(q), now) IN
       /\ r.ok
       /\ rcItems' = r.items
       /\ used' = Append(used, RcKey(q))
    /\ UNCHANGED <<mergeVars, leafVars, tcVars, ctorVars, regVars, comp, now, calls,
                   rcSize, rcTTL, rc, rcFetches, rcLast>>

\* ScrapeShowtimes(ctx, q) has drained the inner stream: c.lru.Add
RcLruStore(q) ==
    /\ comp = "rcLru"
    /\ Len(used) < MaxOps
    /\ rcItems' = ExpLruAdd(rcItems,
                            RcEntry(RcKey(q), <<>>, RcExpiresAt(now), 0, TRUE),
                            RcCapacity)
    /\ used' = Append(used, RcKey(q))
    /\ UNCHANGED <<mergeVars, leafVars, tcVars, ctorVars, regVars, comp, now, calls,
                   rcSize, rcTTL, rc, rcFetches, rcLast>>

\* RoundTrip(req) finds req in the cache: t.cache.Get
TcLruHit(req) ==
    /\ comp = "tcLru"
    /\ ~ensureCache
    /\ Len(used) < MaxOps
    /\ LET r == LruGet(tcItems, TcKey(req)) IN
       /\ r.ok
       /\ tcItems' = r.items
       /\ used' = Append(used, TcKey(req))
    /\ UNCHANGED <<mergeVars, leafVars, rcVars, ctorVars, regVars, comp, now, calls,
                   tcSize, tc, tcOrigins>>

\* RoundTrip(req) has the origin's response: t.cache.Add
TcLruStore(req) ==
    /\ comp = "tcLru"
    /\ ~ensureCache
    /\ Len(used) < MaxOps
    /\ tcItems' = LruAdd(tcItems, TcEntry(TcKey(req), 200, <<>>, 0, cacheExpires(0)),
                         TcCapacity)
    /\ used' = Append(used, TcKey(req))
    /\ UNCHANGED <<mergeVars, leafVars, rcVars, ctorVars, regVars, comp, now, calls,
                   tcSize, tc, tcOrigins>>

LruNext ==
    \/ \E q \in LruQueries : RcLruHit(q)
    \/ \E q \in LruQueries : RcLruStore(q)
    \/ \E req \in LruRequests : TcLruHit(req)
    \/ \E req \in LruRequests : TcLruStore(req)

LruSpec == LruInit /\ [][LruNext]_vars

\* ---- the construction of an aggregator ----

\* the number of scrapers given to the first Interleaved of a run
MaxArgs == 3

\* the scrapers a caller has at hand: nil and three leaf scrapers
CtorLeaves == {Leaf("A"), Leaf("B"), Leaf("C")}
CtorScrapers == {NilScraper} \cup CtorLeaves

RECURSIVE SeqsUpTo(_, _)
SeqsUpTo(S, n) ==
    IF n = 0 THEN {<<>>}
    ELSE LET shorter == SeqsUpTo(S, n - 1) IN
         shorter \cup {Append(q, x) : q \in {r \in shorter : Len(r) = n - 1}, x \in S}

CtorInit ==
    /\ comp = "construct"
    /\ MergeIdle
    /\ now = 1
    /\ calls = 0
    /\ RcIdle
    /\ TcIdle
    /\ used = <<>>
    /\ cargs \in SeqsUpTo(CtorScrapers, MaxArgs)
    /\ built = NilScraper
    /\ fetched = NoFetch
    /\ RegIdle
    /\ LeafIdle

\* built := Interleaved(cargs...)
CtorInterleaved ==
    /\ comp = "construct"
    /\ built = NilScraper
    /\ built' = Interleaved(cargs)
    /\ UNCHANGED <<mergeVars, leafVars, comp, now, calls, rcVars, tcVars, lruVars, regVars,
                   cargs, fetched>>

\* the scraper built becomes an argument of the next Interleaved, between x and y
CtorNest(x, y) ==
    /\ comp = "construct"
    /\ built # NilScraper
    /\ Len(built.scrapers) <= MaxArgs
    /\ cargs' = <<x, built, y>>
    /\ built' = NilScraper
    /\ fetched' = NoFetch
    /\ UNCHANGED <<mergeVars, leafVars, comp, now, calls, rcVars, tcVars, lruVars, regVars>>

\* ScrapeShowtimes of the noneScraper built
CtorScrapeNone ==
    /\ comp = "construct"
    /\ built.kind = "none"
    /\ ~fetched.called
    /\ fetched' = NoneScrapeShowtimes
    /\ UNCHANGED <<mergeVars, leafVars, comp, now, calls, rcVars, tcVars, lruVars, regVars,
                   cargs, built>>

CtorNext ==
    \/ CtorInterleaved
    \/ \E x, y \in CtorScrapers : CtorNest(x, y)
    \/ CtorScrapeNone

CtorSpec == CtorInit /\ [][CtorNext]_vars

\* ---- the registry ----

\* the number of times one option is applied
MaxApplies == 2

\* the descriptors, sites, scrapers and middleware lists given to the options,
\* and the descriptors looked up
RegDescriptors == {"x"}
RegSites == {"PdxSite_None", "PdxSite_Cinema21"}
RegScrapers == {NilScraper, Leaf("A")}
RegMiddleware == {<<>>, <<"m1", "m2">>, <<"cached">>}
RegLookups == {"x", SyntaxGoString, "z"}

\* site.Descriptor().Syntax().GoString()
SiteDescriptor(site) == SyntaxGoString

\* m(scraper): Cached(maxEntries, ttl) returns nil for a nil scraper, any other
\* middleware wraps what it is given
ApplyMiddleware(m, s) ==
    IF m = "cached" /\ s = NilScraper THEN NilScraper ELSE Wrapped(m, s)

\* for _, m := range middleware { scraper = m(scraper) }
RECURSIVE ApplyAll(_, _)
ApplyAll(mws, s) ==
    IF mws = <<>> THEN s ELSE ApplyAll(Tail(mws), ApplyMiddleware(Head(mws), s))

\* r.scrapers[descriptor] = scraper
MapPut(m, k, v) == [x \in (DOMAIN m) \cup {k} |-> IF x = k THEN v ELSE m[x]]

\* ErrScraperNotFound, and fmt.Errorf("%w: %s", ErrScraperNotFound, descriptor):
\* an error is the chain of what it wraps, with its message
ErrScraperNotFound == "scraper not found"
Errorf(wrapped, descriptor) == <<[msg |-> <<wrapped, ": ", descriptor>>, wraps |-> wrapped]>>
ErrorsIs(err, target) == \E k \in 1 .. Len(err) : err[k].wraps = target

\* a GetScraper that answers a missing descriptor with nil and no error
GetScraperNoError(m, descriptor) ==
    [called |-> TRUE, d |-> descriptor,
     scraper |-> IF descriptor \in DOMAIN m THEN m[descriptor] ELSE NilScraper,
     err |-> <<>>]

\* r.GetScraper(descriptor)
GetScraper(m, descriptor) ==
    IF descriptor \notin DOMAIN m
    THEN [called |-> TRUE, d |-> descriptor, scraper |-> NilScraper,
          err |-> Errorf(ErrScraperNotFound, descriptor)]
    ELSE [called |-> TRUE, d |-> descriptor, scraper |-> m[descriptor], err |-> <<>>]

RegInit ==
    /\ comp = "registry"
    /\ MergeIdle
    /\ now = 1
    /\ calls = 0
    /\ RcIdle
    /\ TcIdle
    /\ used = <<>>
    /\ cargs = <<>>
    /\ built = NilScraper
    /\ fetched = NoFetch
    /\ RegIdle
    /\ LeafIdle

\* option i := WithScraper(descriptor, scraper, middleware...)
WithScraper(i, descriptor, scraper, middleware) ==
    /\ comp = "registry"
    /\ ~regOpts[i].made
    /\ regOpts' = [regOpts EXCEPT ![i] =
                      [made |-> TRUE, forSite |-> FALSE, d |-> descriptor,
                       src |-> scraper, scraper |-> scraper, mws |-> middleware,
                       n |-> 0]]
    /\ UNCHANGED <<mergeVars, leafVars, comp, now, calls, rcVars, tcVars, lruVars, ctorVars,
                   regPc, scrapers, regLog, got>>

\* option i := WithScraperForSite(site, scraper, middleware...)
WithScraperForSite(i, site, scraper, middleware) ==
    /\ comp = "registry"
    /\ ~regOpts[i].made
    /\ regOpts' = [regOpts EXCEPT ![i] =
                      [made |-> TRUE, forSite |-> TRUE, d |-> site,
                       src |-> scraper, scraper |-> scraper, mws |-> middleware,
                       n |-> 0]]
    /\ UNCHANGED <<mergeVars, leafVars, comp, now, calls, rcVars, tcVars, lruVars, ctorVars,
                   regPc, scrapers, regLog, got>>

\* opt(r) in the loop of NewRegistry, for option i. The closure of WithScraper
\* assigns to the scraper it holds; the closure of WithScraperForSite calls
\* WithScraper with the scraper it holds and applies the option made
RegApply(i) ==
    /\ comp = "registry"
    /\ regPc = "new"
    /\ regOpts[i].made
    /\ regOpts[i].n < MaxApplies
    /\ LET o == regOpts[i]
           descriptor == IF o.forSite THEN SiteDescriptor(o.d) ELSE o.d
           stored == ApplyAll(o.mws, o.scraper)
       IN /\ scrapers' = MapPut(scrapers, descriptor, stored)
          /\ regOpts' = [regOpts EXCEPT ![i] =
                            [o EXCEPT !.n = o.n + 1,
                                      !.scraper = IF o.forSite THEN o.scraper ELSE stored]]
          /\ regLog' = Append(regLog, [opt |-> i, d |-> descriptor, scraper |-> stored])
    /\ UNCHANGED <<mergeVars, leafVars, comp, now, calls, rcVars, tcVars, lruVars, ctorVars,
                   regPc, got>>

\* NewRegistry returns r
RegReturn ==
    /\ comp = "registry"
    /\ regPc = "new"
    /\ regPc' = "ready"
    /\ UNCHANGED <<mergeVars, leafVars, comp, now, calls, rcVars, tcVars, lruVars, ctorVars,
                   regOpts, scrapers, regLog, got>>

\* r.GetScraper(descriptor)
RegGetScraper(descriptor) ==
    /\ comp = "registry"
    /\ regPc = "ready"
    /\ got' = GetScraper(scrapers, descriptor)
    /\ UNCHANGED <<mergeVars, leafVars, comp, now, calls, rcVars, tcVars, lruVars, ctorVars,
                   regOpts, regPc, scrapers, regLog>>

\* NewRegistry is called again, with options the caller holds
RegNewRegistry ==
    /\ comp = "registry"
    /\ regPc = "ready"
    /\ regPc' = "new"
    /\ scrapers' = <<>>
    /\ regLog' = <<>>
    /\ got' = NoGot
    /\ UNCHANGED <<mergeVars, leafVars, comp, now, calls, rcVars, tcVars, lruVars, ctorVars,
                   regOpts>>

RegNext ==
    \/ \E i \in OptionIds, d \in RegDescriptors, sc \in RegScrapers, mws \in RegMiddleware :
          WithScraper(i, d, sc, mws)
    \/ \E i \in OptionIds, site \in RegSites, sc \in RegScrapers, mws \in RegMiddleware :
          WithScraperForSite(i, site, sc, mws)
    \/ \E i \in OptionIds : RegApply(i)
    \/ RegReturn
    \/ \E d \in RegLookups : RegGetScraper(d)
    \/ RegNewRegistry

RegSpec == RegInit /\ [][RegNext]_vars

\* ---- the leaf scrapers ----

\* the number of events in the data a leaf scraper parses
MaxData == 2

LeafKinds == {"hollywoodtheatre", "cinemagic", "cinema21"}

\* the start times of the events, and the requests: an unset bound, or After
\* and Before at the start of some event
LeafTimes == {1, 2, 3}
ListReqs == [After : {0, 2}, Before : {0, 3}]

\* the item made of the k-th event of the data
LeafItem(k, t) == [id |-> k, StartTime |-> t]

\* the tests of the loop body on start: an event goes on unless After is set
\* and start is not after it, or Before is set and start is not before it
Kept(start, req) ==
    /\ ~(req.After # 0 /\ ~(start > req.After))
    /\ ~(req.Before # 0 /\ ~(start < req.Before))

\* the items of the events that pass the tests, in the order of the data
RECURSIVE KeptItems(_, _, _)
KeptItems(data, k, req) ==
    IF k > Len(data) THEN <<>>
    ELSE (IF Kept(data[k], req) THEN <<LeafItem(k, data[k])>> ELSE <<>>)
            \o KeptItems(data, k + 1, req)

\* slices.SortFunc(items, by StartTime), which for a short slice is an
\* insertion sort
RECURSIVE InsertSorted(_, _)
InsertSorted(sorted, x) ==
    IF sorted = <<>> THEN <<x>>
    ELSE IF sorted[Len(sorted)].StartTime > x.StartTime
    THEN Append(InsertSorted(SubSeq(sorted, 1, Len(sorted) - 1), x), sorted[Len(sorted)])
    ELSE Append(sorted, x)

RECURSIVE SortFunc(_)
SortFunc(items) ==
    IF items = <<>> THEN <<>>
    ELSE InsertSorted(SortFunc(SubSeq(items, 1, Len(items) - 1)), items[Len(items)])

\* what sendShowtimes sends on hits, in order: cinemagic and cinema21 collect
\* the items and sort them, hollywoodtheatre sends each item as the loop makes it
ToSend ==
    IF leafKind = "hollywoodtheatre"
    THEN KeptItems(upstream, 1, listReq)
    ELSE SortFunc(KeptItems(upstream, 1, listReq))

LeafInit ==
    /\ comp = "leaf"
    /\ MergeIdle
    /\ now = 1
    /\ calls = 0
    /\ RcIdle
    /\ TcIdle
    /\ used = <<>>
    /\ cargs = <<>>
    /\ built = NilScraper
    /\ fetched = NoFetch
    /\ regOpts = [i \in OptionIds |-> NoOption]
    /\ regPc = "new"
    /\ scrapers = <<>>
    /\ regLog = <<>>
    /\ got = NoGot
    /\ leafKind \in LeafKinds
    /\ upstream \in UNION {[1 .. l -> LeafTimes] : l \in 0 .. MaxData}
    /\ listReq \in ListReqs
    /\ sendPc = "idle"
    /\ sendPos = 0
    /\ hits = <<>>
    /\ leafCtx = "live"
    /\ consuming = TRUE

\* ScrapeShowtimes(ctx, listReq): the fetch fails and the error is returned
LeafFetchErr ==
    /\ comp = "leaf"
    /\ sendPc = "idle"
    /\ sendPc' = "failed"
    /\ UNCHANGED <<mergeVars, comp, now, calls, rcVars, tcVars, lruVars, ctorVars, regVars,
                   leafKind, upstream, listReq, sendPos, hits, leafCtx, consuming>>

\* ScrapeShowtimes(ctx, listReq): the data is fetched, hits is made and the
\* goroutine that runs sendShowtimes is started
LeafScrapeShowtimes ==
    /\ comp = "leaf"
    /\ sendPc = "idle"
    /\ leafCtx = "live"
    /\ sendPc' = "sending"
    /\ UNCHANGED <<mergeVars, comp, now, calls, rcVars, tcVars, lruVars, ctorVars, regVars,
                   leafKind, upstream, listReq, sendPos, hits, leafCtx, consuming>>

\* hits <- item: hits is unbuffered, the send happens when the reader receives,
\* and nothing else ends it
LeafSend ==
    /\ comp = "leaf"
    /\ sendPc = "sending"
    /\ sendPos < Len(ToSend)
    /\ consuming
    /\ hits' = Append(hits, ToSend[sendPos + 1])
    /\ sendPos' = sendPos + 1
    /\ UNCHANGED <<mergeVars, comp, now, calls, rcVars, tcVars, lruVars, ctorVars, regVars,
                   leafKind, upstream, listReq, sendPc, leafCtx, consuming>>

\* sendShowtimes returns and the deferred close(hits) runs
LeafClose ==
    /\ comp = "leaf"
    /\ sendPc = "sending"
    /\ sendPos = Len(ToSend)
    /\ sendPc' = "closed"
    /\ UNCHANGED <<mergeVars, comp, now, calls, rcVars, tcVars, lruVars, ctorVars, regVars,
                   leafKind, upstream, listReq, sendPos, hits, leafCtx, consuming>>

\* the caller cancels ctx
LeafCancel ==
    /\ comp = "leaf"
    /\ leafCtx = "live"
    /\ leafCtx' = "done"
    /\ UNCHANGED <<mergeVars, comp, now, calls, rcVars, tcVars, lruVars, ctorVars, regVars,
                   leafKind, upstream, listReq, sendPc, sendPos, hits, consuming>>

\* the reader of hits, a worker of interleavedScraper.run, takes <-ctx.Done()
\* in its select and returns
LeafReaderReturns ==
    /\ comp = "leaf"
    /\ leafCtx = "done"
    /\ sendPc = "sending"
    /\ consuming
    /\ consuming' = FALSE
    /\ UNCHANGED <<mergeVars, comp, now, calls, rcVars, tcVars, lruVars, ctorVars, regVars,
                   leafKind, upstream, listReq, sendPc, sendPos, hits, leafCtx>>

LeafNext ==
    \/ LeafFetchErr
    \/ LeafScrapeShowtimes
    \/ LeafSend
    \/ LeafClose
    \/ LeafCancel
    \/ LeafReaderReturns

LeafSpec == LeafInit /\ [][LeafNext]_vars

\* the goroutine of sendShowtimes runs when it can
LeafFairness == WF_vars(LeafSend) /\ WF_vars(LeafClose)

LeafLiveSpec == LeafInit /\ [][LeafNext]_vars /\ LeafFairness

\* ------------------------------------------------- what the claims speak of
Min(a, b) == IF a <= b THEN a ELSE b

\* the items of scraper i's stream
ItemsOf(i) == {Item(i, k, stream[i][k]) : k \in 1 .. Len(stream[i])}
AllItems == UNION {ItemsOf(i) : i \in Sources}

RECURSIVE TotalFrom(_)
TotalFrom(i) == IF i \notin Sources THEN 0 ELSE Len(stream[i]) + TotalFrom(i + 1)
TotalItems == TotalFrom(0)

RECURSIVE CountFrom(_, _)
CountFrom(t, i) ==
    IF i \notin Sources THEN 0
    ELSE Cardinality({k \in 1 .. Len(stream[i]) : stream[i][k] = t}) + CountFrom(t, i + 1)

RECURSIVE Repeat(_, _)
Repeat(t, c) == IF c = 0 THEN <<>> ELSE <<t>> \o Repeat(t, c - 1)

\* the StartTimes of all streams together, in non-decreasing order
RECURSIVE SortedFrom(_)
SortedFrom(t) ==
    IF t > MaxTime THEN <<>> ELSE Repeat(t, CountFrom(t, 0)) \o SortedFrom(t + 1)
SortedTimes == SortedFrom(1)

OutTimes == [p \in 1 .. Len(output) |-> output[p].StartTime]
OutItems == {output[p] : p \in 1 .. Len(output)}

\* run returned without the context having been cancelled
Completed == cpc = "done" /\ ~cancelled

\* ---------------------------------------------------------------- claims
\* C1: the items written to the output channel are in non-decreasing StartTime
\* order, in every state and for every interleaving of the workers' sends
\* (every scraper emits in non-decreasing order: Init).
C1_OutputSorted ==
    \A p \in 1 .. Len(output) - 1 : output[p].StartTime <= output[p + 1].StartTime

\* three items, alternating between the two scrapers, with strictly growing times
C1_Witness ==
    /\ Len(output) >= 3
    /\ output[1].src # output[2].src
    /\ output[2].src # output[3].src
    /\ output[1].StartTime < output[2].StartTime
    /\ output[2].StartTime < output[3].StartTime

\* C2: once the coordinator has returned (it no longer reads mergeChan), no
\* worker is blocked on the send of its 'exhausted' signal to mergeChan.
C2_NoWorkerBlockedOnSend ==
    cpc = "done" => \A i \in Sources : wpc[i] # "sendExhausted"

\* C3: with limit > 0, at most limit items are ever sent on the output channel.
C3_AtMostLimit ==
    reqLimit > 0 => (Len(output) <= reqLimit /\ sent = Len(output))

\* the limit is reached while an item is still buffered
C3_Witness ==
    /\ reqLimit > 0
    /\ Len(output) = reqLimit
    /\ Len(indices) > 0

\* C4: with limit L > 0, a merge that ran to its end emitted the L earliest
\* StartTimes of all the streams (all of them if there are fewer), in order, each
\* output item being a distinct item of some stream.
C4_EarliestUpToLimit ==
    (reqLimit > 0 /\ Completed) =>
        /\ OutTimes = SubSeq(SortedTimes, 1, Min(reqLimit, TotalItems))
        /\ OutItems \subseteq AllItems
        /\ Cardinality(OutItems) = Len(output)

\* limit 1 of three items, and the earliest item is the second scraper's
C4_Witness ==
    /\ reqLimit = 1
    /\ Completed
    /\ TotalItems >= 3
    /\ Len(output) = 1
    /\ output[1].src = 1
    /\ \A x \in ItemsOf(0) : x.StartTime > output[1].StartTime

\* C5: once limit items have been emitted the coordinator pops no further item,
\* and from then on the coordinator, every worker and the closer terminate and
\* the output channel is closed.
C5_LimitTeardown ==
    /\ [][(reqLimit > 0 /\ sent >= limit) => cpc' \notin {"send", "drainSend"}]_vars
    /\ ((reqLimit > 0 /\ sent >= limit) ~> Terminated)

\* everything has terminated at the limit with items left in the buffers
C5_Witness ==
    /\ reqLimit > 0
    /\ sent = limit
    /\ Terminated
    /\ Len(indices) > 0
    /\ \E i \in Sources : Len(pending[i]) > 0

\* C6: with limit 0, no cancellation and no failing scraper, a merge that ran to
\* its end emitted every item of every stream exactly once; for A = [1,3],
\* B = [2] the output is exactly a1, b1, a2.
C6_EveryItemOnce ==
    (reqLimit = 0 /\ Completed /\ \A i \in Sources : ~fails[i]) =>
        /\ Len(output) = TotalItems
        /\ OutItems = AllItems
        /\ (stream[0] = <<1, 3>> /\ stream[1] = <<2>>) =>
               output = <<Item(0, 1, 1), Item(1, 1, 2), Item(0, 2, 3)>>

\* four items of two scrapers emitted, the scrapers alternating
C6_Witness ==
    /\ reqLimit = 0
    /\ Completed
    /\ \A i \in Sources : ~fails[i]
    /\ Len(output) = 4
    /\ output[1].src # output[2].src
    /\ output[2].src # output[3].src
    /\ output[3].src # output[4].src

\* C7: after the context is cancelled the output channel is eventually closed,
\* whatever the coordinator was waiting on and whether or not the consumer reads.
C7_CancelClosesOutput == cancelled ~> outClosed

\* cancelled with the consumer gone and items not yet emitted: output closed
C7_Witness ==
    /\ cancelled
    /\ ~reading
    /\ outClosed
    /\ Len(output) < TotalItems

\* C8: ScrapeShowtimes returns no error; when scrapers fail, a merge that ran to
\* its end has marked each failing scraper closed and emitted exactly the items of
\* the others, sorted (up to the limit); if all fail the output is empty and closed.
C8_FailSoft ==
    /\ cpc # "init" => retErr = "nil"
    /\ (Completed /\ \E i \in Sources : fails[i]) =>
           /\ \A i \in Sources : fails[i] => closed[i]
           /\ OutTimes = SubSeq(SortedTimes, 1, Min(limit, TotalItems))
           /\ OutItems \subseteq UNION {ItemsOf(i) : i \in {j \in Sources : ~fails[j]}}
           /\ outClosed
           /\ (\A i \in Sources : fails[i]) => output = <<>>

\* one scraper failed and both items of the other were emitted
C8_Witness ==
    /\ Completed
    /\ fails[0]
    /\ ~fails[1]
    /\ Len(output) = 2
    /\ closed[0]

\* C9: whenever the coordinator pops in the merge loop (mergeChan not yet seen
\* closed), every scraper is marked closed or has a buffered head.
C9_PopOnlyWhenAllKnown ==
    [][(cpc = "loop" /\ cpc' = "send") =>
           \A i \in Sources : closed[i] \/ buffer[i] # NoItem]_vars

\* an item was popped in the merge loop while one scraper is closed with no
\* head, and the popped scraper's head was refilled from its pending queue
C9_Witness ==
    /\ cpc = "send"
    /\ ~mergeClosed
    /\ \E i \in Sources : closed[i] /\ buffer[i] = NoItem
    /\ \E i \in Sources : ~closed[i] /\ item.src = i /\ buffer[i] # NoItem

\* C10: unless the context is cancelled or the consumer stops reading, the merge
\* eventually has emitted every item (up to the limit), closed its output channel
\* and all its goroutines have exited.
C10_NormalTermination ==
    <>((Terminated /\ Len(output) = Min(limit, TotalItems)) \/ cancelled \/ ~reading)

\* a full merge of at least three items has terminated
C10_Witness ==
    /\ Terminated
    /\ ~cancelled
    /\ reading
    /\ Len(output) >= 3
    /\ Len(output) = TotalItems

\* ------------------------------------------------------ the result cache
\* the call that returned last has returned a list for request q, and its
\* caller has not called again
LastReturned(q) ==
    /\ rcLast # RcNoLast
    /\ rc[rcLast].pc = "done"
    /\ rc[rcLast].q = q
    /\ rc[rcLast].err = 0

\* ... and the entry it hit or stored has not expired
ReturnedWithinTTL(q) == LastReturned(q) /\ now <= rc[rcLast].exp

\* C11: a query made right after an identical query has returned, within the
\* TTL, returns in its lookup step, as a hit, the very list the earlier query
\* returned, and the inner scraper is not called for it
C11_SecondQueryIsAHit ==
    [][\A p \in Callers, q \in Queries :
          RcLookup(p, q) /\ ReturnedWithinTTL(q)
             => /\ rc'[p].pc = "done"
                /\ rc'[p].hit
                /\ rc'[p].err = 0
                /\ rc'[p].list = rc[rcLast].list
                /\ rcFetches' = rcFetches]_vars

C11_Witness ==
    /\ calls = 2
    /\ rcFetches = 1
    /\ \E p \in Callers : rc[p].pc = "done" /\ rc[p].hit /\ rc[p].list # <<>>

\* C12: every list held by the result cache is the whole stream of the inner
\* fetch that filled it, so no hit is served a truncated list.
C12_StoredListComplete ==
    \A k \in 1 .. Len(rcItems) : rcItems[k].whole

\* C13: a query made after the entry of the identical query that returned last
\* has expired is a miss, which goes on to call the inner scraper; and with
\* ttl = 0 a lookup of a key the cache holds is a hit whatever the time.
C13_ExpiredIsRefetched ==
    [][\A p \in Callers, q \in Queries :
          RcLookup(p, q)
             => /\ LastReturned(q) /\ now > rc[rcLast].exp
                   => rc'[p].pc = "fetch" /\ ~rc'[p].hit /\ rcItems' = rcItems
                /\ rcTTL = 0 /\ IndexOf(rcItems, RcKey(q)) > 0
                   => rc'[p].pc = "done" /\ rc'[p].hit]_vars

C13_Witness ==
    /\ rcTTL = 1
    /\ rcFetches = 1
    /\ \E p \in Callers :
          /\ rc[p].pc = "fetch"
          /\ LET k == IndexOf(rcItems, RcKey(rc[p].q)) IN
                k > 0 /\ now > rcItems[k].exp

\* v is what fetch f of the inner scraper emitted first, in the order emitted
EmissionOrder(v, f) == \A k \in 1 .. Len(v) : v[k] = InnerItem(f, k)

\* the entry of request q in the list items holds the list v, and v is in the
\* emission order of the fetch that filled the entry
HoldsInOrder(items, q, v) ==
    \E k \in 1 .. Len(items) :
        /\ items[k].key = RcKey(q)
        /\ items[k].value = v
        /\ EmissionOrder(v, items[k].fid)

\* C14: whenever a call returns a stream, a hit yields exactly the list the
\* cache held under its key and a miss exactly the list it has just stored, and
\* that list is the items of the populating fetch in the order emitted.
C14_ReplayKeepsOrder ==
    [][\A p \in Callers :
          rc'[p] # rc[p] /\ rc'[p].pc = "done" /\ rc'[p].err = 0
             => IF rc'[p].hit
                THEN HoldsInOrder(rcItems, rc'[p].q, rc'[p].list)
                ELSE HoldsInOrder(rcItems', rc'[p].q, rc'[p].list)]_vars

C14_Witness ==
    /\ rcFetches = 1
    /\ \E p \in Callers : rc[p].pc = "done" /\ rc[p].hit /\ Len(rc[p].list) >= 2

\* ---------------------------------------------------------- both caches
\* the result cache holds an unexpired entry under the key of request q
RcHolds(q) ==
    LET k == IndexOf(rcItems, RcKey(q)) IN k > 0 /\ now <= rcItems[k].exp

\* C15: when the wrapped call of a miss fails, the call returns that very error
\* with no stream or response and the cache is left as it was; and an identical
\* request made right after the failed one, the cache holding nothing valid
\* under its key, is a miss that goes to the inner scraper (the origin) again.
C15_ErrorNotStored ==
    [][/\ comp = "result" =>
          /\ \A p \in Callers :
                RcFetchErr(p)
                   => /\ rc'[p].pc = "done"
                      /\ rc'[p].err = rcFetches' /\ rc'[p].err # 0
                      /\ rc'[p].list = <<>>
                      /\ rcItems' = rcItems
          /\ \A p \in Callers, q \in Queries :
                /\ rcLast # RcNoLast /\ rc[rcLast].pc = "done"
                /\ rc[rcLast].q = q /\ rc[rcLast].err # 0
                /\ ~RcHolds(q)
                /\ RcLookup(p, q)
                => rc'[p].pc = "fetch" /\ rcItems' = rcItems
       /\ comp = "transport" =>
          /\ \A p \in Callers :
                TcOriginErr(p)
                   => /\ tc'[p].pc = "done"
                      /\ tc'[p].err = tcOrigins' /\ tc'[p].err # 0
                      /\ tc'[p].resp = NoResponse
                      /\ tcItems' = tcItems
          /\ \A p \in Callers, req \in Requests :
                IndexOf(tcItems, TcKey(req)) = 0 /\ TcLookup(p, req)
                   => tc'[p].pc = "origin" /\ tcItems' = tcItems]_vars

C15_Witness ==
    /\ calls = 2
    /\ rcFetches = 1
    /\ \E p \in Callers :
          /\ rcLast = p /\ rc[p].pc = "done" /\ rc[p].err = 1
          /\ \E o \in Callers \ {p} : rc[o].pc = "fetch" /\ rc[o].q = rc[p].q

\* ------------------------------------------------- the transport cache
\* the entry the transport cache holds under the key of req, if any
TcHeld(req) ==
    LET k == IndexOf(tcItems, TcKey(req)) IN
    IF k = 0 THEN TcNoEntry ELSE tcItems[k]

\* C16: a lookup serves a stored response only when the entry under the key has
\* no expiry or the time is before its expiry; a lookup without bypass that
\* finds an entry at or past its expiry goes on to remove the key, after which
\* the key is gone and the request is on its way to the origin.
C16_NeverServedExpired ==
    [][/\ \A p \in Callers, req \in Requests :
             TcLookup(p, req)
                => /\ tc'[p].hit
                      => /\ TcHeld(req) # TcNoEntry
                         /\ TcHeld(req).Expires = 0 \/ now < TcHeld(req).Expires
                         /\ tc'[p].resp = responseFromCache(TcHeld(req))
                   /\ ( /\ ~requestWantsFresh(req)
                        /\ TcHeld(req) # TcNoEntry
                        /\ TcHeld(req).Expires # 0
                        /\ now >= TcHeld(req).Expires )
                      => tc'[p].pc = "remove" /\ ~tc'[p].hit
       /\ \A p \in Callers :
             TcRemove(p)
                => /\ IndexOf(tcItems', TcKey(tc[p].req)) = 0
                   /\ tc'[p].pc = "origin"]_vars

C16_Witness ==
    \E p \in Callers :
        /\ tc[p].pc = "remove"
        /\ TcHeld(tc[p].req) # TcNoEntry
        /\ now = TcHeld(tc[p].req).Expires

\* the Cache-Control header carries no-store or no-cache, in any letter case
\* and on any line
CarriesNoStore(cc) ==
    \E k \in 1 .. Len(Parts(cc)) :
        /\ Parts(cc)[k].name \in {"no-store", "No-Store", "no-cache", "No-Cache"}
        /\ ~Parts(cc)[k].eq

\* C17: no entry of the cache holds a response whose Cache-Control carries
\* no-store or no-cache, so no lookup is served such a response; a call returns
\* it to its caller straight from the origin.
C17_NoStoreNeverStored ==
    \A k \in 1 .. Len(tcItems) : ~CarriesNoStore(tcItems[k].Header)

\* two GET requests were answered 200 by the origin, the second just now, and
\* the cache holds nothing
C17_Witness ==
    /\ calls = 2
    /\ tcOrigins = 2
    /\ tcItems = <<>>
    /\ \E p \in Callers :
          /\ tc[p].pc = "done" /\ tc[p].err = 0 /\ ~tc[p].hit
          /\ tc[p].key = <<"GET", "/a">>
          /\ tc[p].resp = Response(200, 2)
          /\ \A o \in Callers \ {p} : tc[o].pc = "idle"

\* the Cache-Control header carries no-cache, or a max-age that is zero or
\* negative, in any letter case and on any line
CarriesFresh(cc) ==
    \E k \in 1 .. Len(Parts(cc)) :
        \/ Parts(cc)[k].name \in {"no-cache", "No-Cache"} /\ ~Parts(cc)[k].eq
        \/ /\ Parts(cc)[k].name \in {"max-age", "Max-Age"}
           /\ Parts(cc)[k].eq
           /\ Parts(cc)[k].val <= 0

\* C18: a request whose Cache-Control carries no-cache or a max-age that is zero
\* or negative is never served from the cache: its lookup step sends it to the
\* origin and leaves the cache untouched.
C18_FreshRequestReachesOrigin ==
    [][\A p \in Callers, req \in Requests :
          TcLookup(p, req) /\ CarriesFresh(req.cc)
             => tc'[p].pc = "origin" /\ ~tc'[p].hit /\ tcItems' = tcItems]_vars

\* C19: every entry of the cache is under the key of a GET request and holds a
\* response with a 2xx status, and every response served from the cache went to
\* a GET request.
C19_OnlyGet2xxStored ==
    /\ \A k \in 1 .. Len(tcItems) :
          /\ tcItems[k].key[1] = "GET"
          /\ tcItems[k].Status >= 200 /\ tcItems[k].Status < 300
    /\ \A p \in Callers : tc[p].hit => tc[p].key[1] = "GET"

\* a bypassing GET was answered 300 and the entry stored earlier is still there
C19_Witness ==
    /\ Len(tcItems) = 1
    /\ tcItems[1].key = <<"GET", "/a">> /\ tcItems[1].Body = 1
    /\ \E p \in Callers :
          /\ tc[p].pc = "done" /\ tc[p].key = <<"GET", "/a">>
          /\ tc[p].resp = Response(300, 2)

\* part is the directive name (in either letter case) with a positive number
Positive(part, names) == part.name \in names /\ part.eq /\ part.val > 0

\* the header carries both a positive max-age and a positive s-maxage
CarriesBoth(cc) ==
    /\ \E k \in 1 .. Len(Parts(cc)) : Positive(Parts(cc)[k], {"max-age", "Max-Age"})
    /\ \E k \in 1 .. Len(Parts(cc)) : Positive(Parts(cc)[k], {"s-maxage", "S-Maxage"})

\* the number of the header's positive s-maxage
SMaxAge(cc) ==
    LET parts == Parts(cc)
        k == CHOOSE j \in 1 .. Len(parts) : Positive(parts[j], {"s-maxage", "S-Maxage"})
    IN parts[k].val

\* C20: when a response that carries both a positive max-age and a positive
\* s-maxage is stored, the expiry of its entry is the time of storing plus
\* s-maxage, in whichever order the two directives stand.
C20_SMaxAgePreferred ==
    [][\A p \in Callers, status \in Statuses, cc \in RespCCs :
          /\ tc[p].pc = "origin"
          /\ CarriesBoth(cc)
          /\ Storable(tc[p].req, status)
          /\ TcOrigin(p, status, cc, FALSE)
          => /\ tcItems'[1].key = tc[p].key
             /\ tcItems'[1].Header = cc
             /\ tcItems'[1].Expires = now + SMaxAge(cc)]_vars

\* C21: a RoundTrip call that has returned, whatever its outcome, has called
\* OnCacheHit exactly once, with its cache key, and with hit = true exactly when
\* its response came from the cache.
C21_CallbackOncePerCall ==
    \A p \in Callers :
        tc[p].pc = "done"
           => /\ Len(tc[p].cb) = 1
              /\ tc[p].cb[1].key = tc[p].key
              /\ tc[p].cb[1].hit = tc[p].hit

\* the keys of a log of uses, each once, the most recently used first
RECURSIVE Recency(_)
Recency(log) ==
    IF log = <<>> THEN <<>>
    ELSE LET last == log[Len(log)]
             rest == Recency(SubSeq(log, 1, Len(log) - 1)) IN
         <<last>> \o SelectSeq(rest, LAMBDA k : k # last)

KeysOf(items) == [k \in 1 .. Len(items) |-> items[k].key]

\* C22: a cache never holds more entries than its capacity, and what it holds
\* are the most recently inserted or hit keys, as many as the capacity allows:
\* the entry that went at an insertion beyond the capacity is the one used
\* least recently.
C22_CapacityAndLruEviction ==
    comp \in {"rcLru", "tcLru"}
       => /\ Len(LruItems) <= LruCapacity
          /\ KeysOf(LruItems)
                = SubSeq(Recency(used), 1, Min(LruCapacity, Len(Recency(used))))

\* a cache of two entries evicts at the insertion of a third key after a hit
\* made the older entry the more recent
C22_Witness ==
    /\ comp \in {"rcLru", "tcLru"}
    /\ LruCapacity = 2
    /\ Len(used) = 4
    /\ used[3] = used[1]
    /\ Len(Recency(used)) = 3
    /\ Len(LruItems) = 2
    /\ LruItems[2].key = used[1]

\* C23: no RoundTrip waits for another call's origin request: a caller that is
\* not in a call can always start one, and a call that is at the origin, or
\* about to remove an expired entry, can always proceed, whatever the other
\* callers are doing.
C23_NoCallWaitsForAnother ==
    comp = "transport"
       => \A p \in Callers :
            /\ (tc[p].pc = "idle" /\ calls < MaxCalls)
                  => ENABLED (\E req \in Requests : TcLookup(p, req))
            /\ tc[p].pc = "origin" => ENABLED TcOriginErr(p)
            /\ tc[p].pc = "origin"
                  => ENABLED (\E status \in Statuses : TcOrigin(p, status, <<>>, FALSE))
            /\ tc[p].pc = "remove" => ENABLED TcRemove(p)

\* two calls that missed on the same key are at the origin at the same time,
\* neither of them asking for a fresh response
C23_Witness ==
    /\ comp = "transport"
    /\ \A p \in Callers :
          /\ tc[p].pc = "origin"
          /\ ~requestWantsFresh(tc[p].req)
    /\ tc["a"].key = tc["b"].key

\* the scrapers of a list that are not nil
NonNil(ss) == SelectSeq(ss, LAMBDA s : s # NilScraper)

\* the leaf scrapers under a list of scrapers, left to right
RECURSIVE LeavesOf(_)
LeavesOf(ss) ==
    IF ss = <<>> THEN <<>>
    ELSE LET s == ss[1] IN
         (IF s.kind = "nil" THEN <<>>
          ELSE IF s.kind = "interleaved" THEN LeavesOf(s.scrapers)
          ELSE <<s>>) \o LeavesOf(Tail(ss))

\* "interleaved:" followed by the descriptors of the leaves with a comma
\* between each two
InterleavedOf(leaves) ==
    <<"interleaved:">>
       \o [k \in 1 .. 2 * Len(leaves) - 1 |->
             IF k % 2 = 1 THEN Descriptor(leaves[(k + 1) \div 2])[1] ELSE ","]

\* C24: Interleaved given exactly one scraper that is not nil returns that
\* scraper: same value, same descriptor, and no interleavedScraper (no merge)
\* around a scraper that is not one itself.
C24_SingleSourceReturnedAsIs ==
    (comp = "construct" /\ built # NilScraper /\ Len(NonNil(cargs)) = 1)
       => LET s == NonNil(cargs)[1] IN
          /\ built = s
          /\ Descriptor(built) = Descriptor(s)
          /\ s.kind # "interleaved" => built.kind # "interleaved"

\* a leaf scraper between two nil scrapers has been given to Interleaved
C24_Witness ==
    /\ comp = "construct"
    /\ built # NilScraper
    /\ Len(cargs) = 3
    /\ Len(NonNil(cargs)) = 1
    /\ cargs[2].kind = "leaf"

\* C25: an aggregator built over aggregators is built over their leaves: its
\* scrapers are the leaves of its arguments in order, its descriptor is
\* "interleaved:" followed by the leaves' descriptors joined by commas, and it
\* is the aggregator Interleaved builds from the list of leaves itself.
C25_NestedIsFlattened ==
    (comp = "construct" /\ built.kind = "interleaved")
       => /\ built.scrapers = LeavesOf(cargs)
          /\ Descriptor(built) = InterleavedOf(LeavesOf(cargs))
          /\ built = Interleaved(LeavesOf(cargs))
          /\ \A k \in 1 .. Len(built.scrapers) : built.scrapers[k].kind # "interleaved"

\* Interleaved(Interleaved(A, B), C) has the descriptor "interleaved:A,B,C"
C25_Witness ==
    /\ comp = "construct"
    /\ Len(cargs) = 3
    /\ cargs[2] = InterleavedScraper(<<Leaf("A"), Leaf("B")>>)
    /\ Descriptor(cargs[2]) = <<"interleaved:", "A", ",", "B">>
    /\ cargs[3] = Leaf("C")
    /\ cargs[1] = NilScraper
    /\ Descriptor(built) = <<"interleaved:", "A", ",", "B", ",", "C">>

\* C26: Interleaved given no scraper, or nil scrapers only, returns a scraper
\* whose ScrapeShowtimes can be called and returns no error and a closed
\* channel with no item.
C26_NoSourceGivesClosedEmptyStream ==
    (comp = "construct" /\ built # NilScraper /\ NonNil(cargs) = <<>>)
       => /\ built.kind = "none"
          /\ ~fetched.called => ENABLED CtorScrapeNone
          /\ fetched.called => (~fetched.err /\ fetched.closed /\ fetched.ch = <<>>)

\* the scraper built from two nil scrapers has been asked for its showtimes
C26_Witness ==
    /\ comp = "construct"
    /\ cargs = <<NilScraper, NilScraper>>
    /\ built # NilScraper
    /\ fetched.called

\* the positions of the log that stored under descriptor d
RegisteredAt(d) == {k \in 1 .. Len(regLog) : regLog[k].d = d}

\* the greatest of a non-empty set of positions
Latest(S) == CHOOSE k \in S : \A j \in S : j <= k

\* what GetScraper answers for a descriptor
C27_Answer ==
    got.called
       => LET at == RegisteredAt(got.d) IN
          /\ at # {} => (got.err = <<>> /\ got.scraper = regLog[Latest(at)].scraper)
          /\ at = {} => (got.scraper = NilScraper
                         /\ ErrorsIs(got.err, ErrScraperNotFound))
          /\ ErrorsIs(got.err, ErrScraperNotFound) <=> at = {}

\* C27: GetScraper(d) returns with no error the scraper registered last under
\* d, returns nil and an error that wraps ErrScraperNotFound exactly when
\* nothing was registered under d, and leaves the registry as it was.
C27_LookupReturnsLastRegistered ==
    /\ [](comp = "registry" => C27_Answer)
    /\ [][(\E d \in RegLookups : RegGetScraper(d))
             => UNCHANGED <<scrapers, regLog, regOpts, regPc>>]_vars

\* a lookup of a descriptor registered twice, with two scrapers, has returned
\* the second
C27_Witness ==
    /\ comp = "registry"
    /\ got.called
    /\ got.err = <<>>
    /\ Len(regLog) = 2
    /\ regLog[1].d = got.d
    /\ regLog[2].d = got.d
    /\ regLog[1].scraper # regLog[2].scraper
    /\ got.scraper = regLog[2].scraper
    /\ got.scraper # NilScraper

\* mk(...m1(s)) for the middleware m1..mk
RECURSIVE Nested(_, _)
Nested(mws, s) ==
    IF mws = <<>> THEN s
    ELSE ApplyMiddleware(mws[Len(mws)], Nested(SubSeq(mws, 1, Len(mws) - 1), s))

\* C28: what an option of WithScraper or WithScraperForSite stores in the
\* registry is its scraper wrapped by its middleware in argument order, the
\* first innermost: mk(...m1(scraper)).
C28_MiddlewareInArgumentOrder ==
    comp = "registry"
       => \A k \in 1 .. Len(regLog) :
             LET o == regOpts[regLog[k].opt] IN
             regLog[k].scraper = Nested(o.mws, o.src)

\* C29, as stated: a cache built with a non-positive capacity is not usable:
\* the construction fails and the cache never holds an entry.
C29_NonPositiveCapacityFails ==
    (comp \in {"rcLru", "tcLru"} /\ LruSize <= 0)
       => /\ comp = "tcLru" => ensureCache
          /\ LruItems = <<>>

\* C29, amended: a cache built with a non-positive capacity is built with the
\* default capacity, 64 entries for the result cache and 1000 for the
\* transport cache; its construction returns no error, and it stores and
\* holds what is put in it.
C29_NonPositiveCapacityGivesDefault ==
    (comp \in {"rcLru", "tcLru"} /\ LruSize <= 0)
       => /\ comp = "rcLru" => LruCapacity = RcDefaultMaxEntries
          /\ comp = "tcLru" => (LruCapacity = defaultLRUMaxEntries /\ ~ensureCache)
          /\ KeysOf(LruItems) = Recency(used)
          /\ Len(used) < MaxOps
                => \A q \in LruQueries, req \in LruRequests :
                      ENABLED (RcLruStore(q) \/ TcLruStore(req))

\* a cache built with a negative capacity holds three entries, the oldest of
\* which has just been found
C29_Witness ==
    /\ comp \in {"rcLru", "tcLru"}
    /\ LruSize < 0
    /\ Len(LruItems) = 3
    /\ Len(used) = 4
    /\ used[4] = used[1]

\* the header carries a positive max-age or a positive s-maxage
CarriesPositiveAge(cc) ==
    \E k \in 1 .. Len(Parts(cc)) :
        Positive(Parts(cc)[k], {"max-age", "Max-Age", "s-maxage", "S-Maxage"})

\* every entry has an expiry exactly when its response carried a positive age
C30_ExpiryIffPositiveAge ==
    comp = "transport"
       => \A k \in 1 .. Len(tcItems) :
             tcItems[k].Expires # 0 <=> CarriesPositiveAge(tcItems[k].Header)

C31_ConcurrentMissesFetchOnce ==
    ( /\ comp = "result"
      /\ rcTTL = 0
      /\ calls = 2
      /\ \A p \in Callers : rc[p].pc = "done" /\ ~rc[p].hit /\ rc[p].err = 0
      /\ RcKey(rc["a"].q) = RcKey(rc["b"].q) )
       => /\ rcFetches = 1
          /\ rc["a"].list = rc["b"].list

\* the start times of the items received from hits, in order
HitTimes == [k \in 1 .. Len(hits) |-> hits[k].StartTime]

\* C32: whatever the data parsed, every leaf scraper emits its items in
\* non-decreasing StartTime order.
C32_LeafEmitsInOrder ==
    comp = "leaf" => NonDecreasing(HitTimes)

\* C33: once the context is cancelled and the reader of hits has returned, the
\* goroutine of sendShowtimes ends and hits is closed.
C33_LeafStopsOnCancel ==
    (comp = "leaf" /\ sendPc = "sending" /\ leafCtx = "done" /\ ~consuming)
       ~> sendPc = "closed"

\* the events of the data that start at or after After and before Before, an
\* unset bound leaving all through
InWindow(t, req) ==
    /\ req.After = 0 \/ req.After <= t
    /\ req.Before = 0 \/ t < req.Before

\* C34: a leaf scraper whose channel has been read to its close has emitted
\* exactly the events with After <= StartTime < Before.
C34_WindowInclusiveExclusive ==
    (comp = "leaf" /\ sendPc = "closed" /\ consuming)
       => \A k \in 1 .. Len(upstream) :
             InWindow(upstream[k], listReq)
                <=> \E j \in 1 .. Len(hits) : hits[j] = LeafItem(k, upstream[k])

\* the positions of the log where an option of WithScraperForSite registered
\* a scraper for a site
RegisteredForSite(site) ==
    {k \in 1 .. Len(regLog) :
        regOpts[regLog[k].opt].forSite /\ regOpts[regLog[k].opt].d = site}

\* C35: after scrapers for several sites were registered with
\* WithScraperForSite, the lookup of a site's key returns the scraper that was
\* registered (last) for that site: the keys of two sites never coincide, so a
\* registration for one site never replaces another site's.
C35_SiteLookupReturnsOwn ==
    (comp = "registry" /\ got.called)
       => \A site \in RegSites :
             (RegisteredForSite(site) # {} /\ got.d = SiteDescriptor(site))
                => got.scraper = regLog[Latest(RegisteredForSite(site))].scraper

\* the entries of the transport cache, whatever their order
TcEntries(items) == {items[k] : k \in 1 .. Len(items)}

\* the step of caller p's RoundTrip that ends it with nothing to store: an
\* error of the origin, a request that is not a GET, a status outside 2xx, a
\* response with no-store or no-cache, or a body that cannot be read
TcNotStored(p) ==
    \/ TcOriginErr(p)
    \/ \E status \in Statuses, cc \in RespCCs, bodyErr \in BOOLEAN :
          /\ TcOrigin(p, status, cc, bodyErr)
          /\ \/ ~Storable(tc[p].req, status)
             \/ responseCacheControl(cc).noStore
             \/ bodyErr

\* C36: a round trip whose response is not stored never adds or replaces an
\* entry: its lookup and its last step leave the entries as they are, and the
\* one change it makes is the removal of an expired entry under its own key. A
\* request that bypasses the cache does not touch the cache at all, so an
\* unexpired entry under its key stays.
C36_NotStoredLeavesEntries ==
    [][\A p \in Callers :
          /\ TcNotStored(p) => tcItems' = tcItems
          /\ \A req \in Requests :
                TcLookup(p, req)
                   => /\ TcEntries(tcItems') = TcEntries(tcItems)
                      /\ requestWantsFresh(req)
                            => (tcItems' = tcItems /\ tc'[p].pc = "origin")
          /\ TcRemove(p)
                => /\ TcEntries(tcItems') \subseteq TcEntries(tcItems)
                   /\ \A e \in TcEntries(tcItems) \ TcEntries(tcItems') :
                         e.key = tc[p].key /\ ~Unexpired(e)]_vars

\* C37: the Remove of a call that found an expired entry under its key never
\* deletes an unexpired entry: an entry stored under the key by another call
\* after the lookup stays in the cache.
C37_RemoveSparesUnexpired ==
    [][\A p \in Callers :
          TcRemove(p)
             => \A e \in TcEntries(tcItems) : Unexpired(e) => e \in TcEntries(tcItems')]_vars

\* C38: a hit of the result cache returns a list that was fetched for an equal
\* query: when one call has fetched a list and another call is served that
\* list from the cache, the two calls carry the same query, also when the
\* queries differ by less than a second.
C38_HitForEqualQuery ==
    comp = "result"
       => \A p, o \in Callers :
             ( /\ rc[p].pc = "done" /\ rc[p].hit
               /\ rc[o].pc = "done" /\ ~rc[o].hit /\ rc[o].err = 0
               /\ rc[p].list # <<>> /\ rc[o].list # <<>>
               /\ rc[p].list[1].f = rc[o].list[1].f )
                => rc[p].q = rc[o].q

\* the items of source i the coordinator has taken, oldest first: those sent on
\* out, the one it is sending, the head buffer[i] and the queue pending[i]
TakenFrom(i) ==
    SelectSeq(output, LAMBDA x : x.src = i)
       \o (IF item.src = i THEN <<item>> ELSE <<>>)
       \o (IF buffer[i] # NoItem THEN <<buffer[i]>> ELSE <<>>)
       \o pending[i]

\* C39: for each source the aggregator emits the source's items in the order
\* the source sent them, whatever the interleaving and whatever the order of
\* the source's StartTimes: what was sent on out, then the head, then the
\* pending queue are the first items of the source's stream, in its order.
C39_PerSourceFifo ==
    comp = "merge"
       => \A i \in Sources :
             /\ Len(TakenFrom(i)) <= Len(stream[i])
             /\ \A k \in 1 .. Len(TakenFrom(i)) :
                   TakenFrom(i)[k] = Item(i, k, stream[i][k])

\* a source has sent a later StartTime before an earlier one, both are out in
\* the source's order, and the output as a whole is not sorted
C39_Witness ==
    /\ comp = "merge"
    /\ outClosed
    /\ \E i \in Sources :
          /\ Len(stream[i]) = 2
          /\ stream[i][1] > stream[i][2]
          /\ \E a, b \in 1 .. Len(output) :
                /\ a < b
                /\ output[a] = Item(i, 1, stream[i][1])
                /\ output[b] = Item(i, 2, stream[i][2])
    /\ \E a \in 1 .. Len(output) - 1 : output[a].StartTime > output[a + 1].StartTime
    /\ \E a, b \in 1 .. Len(output) : output[a].src # output[b].src

\* the indices in the heap
InHeap == {indices[k] : k \in 1 .. Len(indices)}

\* what holds of the coordinator's locals between two of its steps
C40_HeapMatchesBuffer ==
    /\ \A i \in Sources : i \in InHeap <=> buffer[i] # NoItem
    /\ \A a, b \in 1 .. Len(indices) : a # b => indices[a] # indices[b]
    /\ \A i \in Sources : pending[i] # <<>> => buffer[i] # NoItem

\* the steps the coordinator goroutine takes: its loops, and the receive from
\* mergeChan that meets a worker's send
C40_CoordinatorStep ==
    \/ Coordinator
    \/ \E i \in Sources : WorkerSendItem(i) \/ WorkerSendExhausted(i)

\* C40: between two steps of the coordinator the heap holds the index i
\* exactly when buffer[i] holds an item, holds no index twice, and pending[i]
\* is non-empty only when buffer[i] holds an item; buffer, pending, closed and
\* the heap change in the coordinator's steps only.
C40_CoordinatorOwnsHeap ==
    /\ [](comp = "merge" => C40_HeapMatchesBuffer)
    /\ [][C40_CoordinatorStep \/ UNCHANGED <<buffer, pending, closed, indices>>]_vars

\* a source has its head in the heap and a second item in its pending queue,
\* while the other source has no head and is not in the heap
C40_Witness ==
    /\ comp = "merge"
    /\ cpc = "loop"
    /\ \E i, j \in Sources :
          /\ i # j
          /\ indices = <<i>>
          /\ buffer[i] # NoItem
          /\ Len(pending[i]) = 1
          /\ buffer[j] = NoItem
          /\ pending[j] = <<>>
====
